---- MODULE Spec2Model ----
(***************************************************************************)
(* A model of the drawing engine of alecrj/p2:                             *)
(*   src/src/engines/drawing/DrawingEngine.ts  (class SkiaDrawingEngine)   *)
(*                                                                         *)
(* Numbers.  The engine computes with IEEE doubles.  The model computes    *)
(* with exact fixed-point integers:                                        *)
(*   - sizes and opacities are counted in 1/Unit     (8 is 8 * Unit),      *)
(*   - pressures and spacings are counted in tenths  (0.5 is 5),           *)
(*   - coordinates are multiples of Grid, which is large enough for every  *)
(*     division by 10 (smoothing) and by 2 (midpoints) the model performs  *)
(*     to be exact.                                                        *)
(***************************************************************************)
EXTENDS Integers, Sequences, FiniteSets, TLC

(***************************************************************************)
(* Bounds of the model.                                                    *)
(***************************************************************************)
\* points of one stroke
MaxPoints == 2
\* calls of saveState in one behaviour of Spec (caps the strokes started too)
MaxPushes == 3
\* what one behaviour of Spec may spend on calls that neither draw nor push nor move the
\* cursor: a layer operation costs 1, a setter costs 2
AuxBudget == 2
\* how many pushes beyond the capacity SpecHist performs
Overflow == 10

\* DrawingEngine.ts:103
maxHistorySize == 50

RECURSIVE Pow10(_)
Pow10(n) == IF n = 0 THEN 1 ELSE 10 * Pow10(n - 1)

\* fixed-point denominator of sizes and opacities
Unit == 2 * 100
\* coordinates are multiples of Grid
Grid == 2 * Pow10(MaxPoints)

Min(a, b) == IF a < b THEN a ELSE b
Max(a, b) == IF a > b THEN a ELSE b

\* the null of `Stroke | null` and `Layer | null`
Null == [null |-> TRUE]

(***************************************************************************)
(* State of SkiaDrawingEngine (DrawingEngine.ts:69-111), and the history   *)
(* variables of the model: `last` records the latest call, its result and  *)
(* the events it emitted; `delivered` records the handlers these events    *)
(* were dispatched to; `subscribed` holds, per event name, the callbacks   *)
(* of the subscriptions made and not cancelled, in the order of the calls  *)
(* of on; `pushCount` counts the calls of saveState; `auxCount` is what    *)
(* the calls of layer operations and setters have cost.  `lastPoint` is    *)
(* the ref of that name of the canvas component                            *)
(* (src/src/components/Canvas.tsx:53).  `legacy` is the instance of the    *)
(* single-layer DrawingEngine V1.1 (src/unnamed/part_001:7-23) with its    *)
(* fields state, history, historyIndex and strokeIdCounter.                *)
(***************************************************************************)
VARIABLES
    canvasWidth, canvasHeight, backgroundColor,
    layers, activeLayerId, currentStroke, isDrawing,
    activeBrush, activeColor,
    history, historyIndex,
    strokeIdCounter, layerIdCounter,
    listeners,
    last, delivered, subscribed, pushCount, auxCount,
    phase, nStrokes, nDone, preUndo, lastPoint,
    legacy

canvasVars == <<canvasWidth, canvasHeight, backgroundColor>>
brushVars == <<activeBrush, activeColor>>
strokeVars == <<currentStroke, isDrawing, strokeIdCounter>>
layerVars == <<layers, activeLayerId, layerIdCounter>>
historyVars == <<history, historyIndex, pushCount>>
engineVars == <<canvasVars, brushVars, strokeVars, layerVars, historyVars>>
eventVars == <<listeners, delivered, subscribed>>
scenarioVars == <<phase, nStrokes, nDone, preUndo, lastPoint, legacy>>
vars == <<engineVars, eventVars, last, auxCount, scenarioVars>>

(***************************************************************************)
(* Inputs.                                                                 *)
(***************************************************************************)
\* DrawingEngine.ts:81-96 and 127-144: the default pencil
DefaultBrush ==
    [id |-> "default_pencil", type |-> "pencil", size |-> 8 * Unit, opacity |-> Unit,
     spacing |-> 1, pressureSize |-> TRUE, pressureOpacity |-> TRUE,
     blendMode |-> "SrcOver"]

\* a second brush a caller may pass to setBrush
AirBrush ==
    [id |-> "airbrush", type |-> "airbrush", size |-> 20 * Unit, opacity |-> Unit \div 2,
     spacing |-> 5, pressureSize |-> FALSE, pressureOpacity |-> TRUE,
     blendMode |-> "Multiply"]

Brushes == {DefaultBrush, AirBrush}

\* a brush without smoothing whose opacity does not follow the pressure
MarkerBrush ==
    [id |-> "marker", type |-> "marker", size |-> 12 * Unit, opacity |-> Unit,
     spacing |-> 0, pressureSize |-> TRUE, pressureOpacity |-> FALSE,
     blendMode |-> "SrcOver"]
Colors == {"#000000", "#FF0000"}

\* pointer samples: Point (DrawingEngine.ts:4-11); tilt and velocity are absent
DownSample == [x |-> 0, y |-> 0, pressure |-> 5, timestamp |-> 1]
MoveSample == [x |-> Grid, y |-> 2 * Grid, pressure |-> 10, timestamp |-> 2]

\* the samples Spec passes to startStroke and to addStrokePoint
DownSamples == {DownSample}
MoveSamples == {MoveSample}
\* the samples SpecRT passes to both
Samples == {DownSample, MoveSample}

\* pressures in tenths; Point.pressure is a number the engine takes as it comes
\* (DrawingEngine.ts:7, 193): the pressures of [0, 1] and one on each side of it
UnitPressures == 0 .. 10
Pressures == {-5, 0, 5, 10, 15}
PressureSample(pressure) == [x |-> 0, y |-> 0, pressure |-> pressure, timestamp |-> 1]

\* layer ids a caller may pass: every id generated so far, and one never generated
UnknownLayerId == 0
LayerIds == (1 .. layerIdCounter) \cup {UnknownLayerId}

(***************************************************************************)
(* Event system.  emit (DrawingEngine.ts:592-603) is recorded as the       *)
(* sequence of events the latest call emitted.                             *)
(***************************************************************************)
\* what a handler finds when it reads the engine
Observed ==
    [canvasWidth |-> canvasWidth, canvasHeight |-> canvasHeight,
     backgroundColor |-> backgroundColor, layers |-> layers,
     activeLayerId |-> activeLayerId, currentStroke |-> currentStroke,
     isDrawing |-> isDrawing, activeBrush |-> activeBrush, activeColor |-> activeColor,
     history |-> history, historyIndex |-> historyIndex,
     strokeIdCounter |-> strokeIdCounter, layerIdCounter |-> layerIdCounter]

\* an event emitted while the engine is in state `seen`
EventAt(name, arg, seen) == [name |-> name, arg |-> arg, seen |-> seen]

\* an event emitted by the last statement of a call that changes the engine
Event(name, arg) == EventAt(name, arg, Observed')

Call(op, ok, emitted) == [op |-> op, ok |-> ok, emitted |-> emitted]

\* the callbacks a caller may subscribe: one that returns, one that throws, one that
\* calls its own unsubscribe function when it is invoked
Handlers ==
    {[id |-> 1, kind |-> "returns"], [id |-> 2, kind |-> "throws"],
     [id |-> 3, kind |-> "unsubscribes"]}

\* eventListeners.indexOf(callback), 1-based; 0 when absent
indexOf(handlers, callback) ==
    IF \E i \in 1 .. Len(handlers) : handlers[i] = callback
    THEN CHOOSE i \in 1 .. Len(handlers) :
            /\ handlers[i] = callback
            /\ \A j \in 1 .. (i - 1) : handlers[j] # callback
    ELSE 0

\* the body of the unsubscribe function and of off: lines 573-578, 585-589
removeListener(handlers, callback) ==
    IF indexOf(handlers, callback) > 0
    THEN [i \in 1 .. (Len(handlers) - 1) |->
            IF i < indexOf(handlers, callback) THEN handlers[i] ELSE handlers[i + 1]]
    ELSE handlers

\* callback(data) without the try of line 596: what the callback throws leaves emit
tryCallbackUncaught(callback) ==
    [threw |-> callback.kind = "throws", escaped |-> callback.kind = "throws"]

\* try { callback(data) } catch: what the callback throws is logged (lines 596-600)
tryCallback(callback) ==
    [threw |-> callback.kind = "throws", escaped |-> FALSE]

\* Array.prototype.forEach from index k on: the length n is read once, the elements
\* are read from the live array, an index the array no longer has is skipped
RECURSIVE forEach(_, _, _, _)
forEach(handlers, k, n, event) ==
    IF k > n \/ k > Len(handlers)
    THEN [handlers |-> handlers, calls |-> << >>, raised |-> FALSE]
    ELSE LET callback == handlers[k]
             result == tryCallback(callback)
             call == [event |-> event, handler |-> callback.id, threw |-> result.threw]
             after == IF callback.kind = "unsubscribes"
                      THEN removeListener(handlers, callback)
                      ELSE handlers
         IN  IF result.escaped
             THEN [handlers |-> after, calls |-> <<call>>, raised |-> TRUE]
             ELSE LET rest == forEach(after, k + 1, n, event)
                  IN  [handlers |-> rest.handlers, calls |-> <<call>> \o rest.calls,
                       raised |-> rest.raised]

\* emit: lines 592-603
emit(ls, event) ==
    IF event.name \notin DOMAIN ls
    THEN [listeners |-> ls, calls |-> << >>, raised |-> FALSE]
    ELSE LET done == forEach(ls[event.name], 1, Len(ls[event.name]), event)
         IN  [listeners |-> [ls EXCEPT ![event.name] = done.handlers],
              calls |-> done.calls, raised |-> done.raised]

\* the calls of emit one operation makes, in order, until one raises
RECURSIVE emitAll(_, _, _)
emitAll(ls, events, i) ==
    IF i > Len(events)
    THEN [listeners |-> ls, calls |-> << >>, raised |-> FALSE]
    ELSE LET first == emit(ls, events[i])
         IN  IF first.raised THEN first
             ELSE LET rest == emitAll(first.listeners, events, i + 1)
                  IN  [listeners |-> rest.listeners, calls |-> first.calls \o rest.calls,
                       raised |-> rest.raised]

\* the subscriptions left when the handlers invoked by `calls` that unsubscribe
\* themselves have done so
RECURSIVE cancelled(_, _, _)
cancelled(subs, calls, i) ==
    IF i > Len(calls) THEN subs
    ELSE LET callback == CHOOSE h \in Handlers : h.id = calls[i].handler
         IN  cancelled(IF callback.kind = "unsubscribes"
                       THEN [subs EXCEPT ![calls[i].event.name] =
                                removeListener(@, callback)]
                       ELSE subs,
                       calls, i + 1)

\* the dispatch of the events the call recorded in last' emitted
Emitting ==
    LET done == emitAll(listeners, last'.emitted, 1)
    IN  /\ listeners' = done.listeners
        /\ delivered' = [calls |-> done.calls, raised |-> done.raised]
        /\ subscribed' = cancelled(subscribed, done.calls, 1)

\* on: lines 564-569; the unsubscribe function it returns does what off does
on(event, callback) ==
    /\ listeners' = IF event \in DOMAIN listeners
                     THEN [listeners EXCEPT ![event] = Append(@, callback)]
                     ELSE [e \in DOMAIN listeners \cup {event} |->
                            IF e = event THEN <<callback>> ELSE listeners[e]]
    /\ subscribed' = IF event \in DOMAIN subscribed
                      THEN [subscribed EXCEPT ![event] = Append(@, callback)]
                      ELSE [e \in DOMAIN subscribed \cup {event} |->
                             IF e = event THEN <<callback>> ELSE subscribed[e]]
    /\ delivered' = [calls |-> << >>, raised |-> FALSE]
    /\ UNCHANGED engineVars
    /\ last' = Call("on", TRUE, << >>)

\* the function on returns to its j-th subscriber of those still subscribed to the
\* event: lines 571-579, which look the callback up with indexOf
unsubscribe(event, j) ==
    /\ listeners' = [listeners EXCEPT ![event] = removeListener(@, subscribed[event][j])]
    /\ subscribed' = [subscribed EXCEPT ![event] =
                        [i \in 1 .. (Len(@) - 1) |-> IF i < j THEN @[i] ELSE @[i + 1]]]
    /\ delivered' = [calls |-> << >>, raised |-> FALSE]
    /\ UNCHANGED engineVars
    /\ last' = Call("unsubscribe", TRUE, << >>)

\* off: lines 582-590
off(event, callback) ==
    /\ listeners' = IF event \in DOMAIN listeners
                     THEN [listeners EXCEPT ![event] = removeListener(@, callback)]
                     ELSE listeners
    /\ subscribed' = IF event \in DOMAIN subscribed
                      THEN [subscribed EXCEPT ![event] = removeListener(@, callback)]
                      ELSE subscribed
    /\ delivered' = [calls |-> << >>, raised |-> FALSE]
    /\ UNCHANGED engineVars
    /\ last' = Call("off", TRUE, << >>)

\* what a call in Spec leaves alone
Unbudgeted == UNCHANGED <<auxCount, scenarioVars>> /\ Emitting

(***************************************************************************)
(* Path creation (DrawingEngine.ts:255-314).                               *)
(***************************************************************************)
\* the loop of createPath with the arguments of quadTo in the wrong order: the midpoint
\* as the control point, the point as the endpoint
RECURSIVE quadSegmentsSwapped(_, _)
quadSegmentsSwapped(points, i) ==
    IF i >= Len(points)
    THEN << >>
    ELSE LET current == points[i]
             next == points[i + 1]
             controlX == (current.x + next.x) \div 2
             controlY == (current.y + next.y) \div 2
         IN  << <<"quadTo", controlX, controlY, current.x, current.y>> >>
                 \o quadSegmentsSwapped(points, i + 1)

\* the loop of lines 269-278 from index i on (1-based): quadTo(x1, y1, x2, y2) has the
\* control point (x1, y1) and the endpoint (x2, y2)
RECURSIVE quadSegments(_, _)
quadSegments(points, i) ==
    IF i >= Len(points)
    THEN << >>
    ELSE LET current == points[i]
             next == points[i + 1]
             controlX == (current.x + next.x) \div 2
             controlY == (current.y + next.y) \div 2
         IN  << <<"quadTo", current.x, current.y, controlX, controlY>> >>
                 \o quadSegments(points, i + 1)

createPath(points, brush) ==
    IF Len(points) = 0 THEN << >>
    ELSE IF Len(points) = 1
    THEN << <<"addCircle", points[1].x, points[1].y, brush.size \div 2>> >>
    ELSE << <<"moveTo", points[1].x, points[1].y>> >>
            \o quadSegments(points, 2)
            \o << <<"lineTo", points[Len(points)].x, points[Len(points)].y>> >>

createPaint(stroke) ==
    [color |-> stroke.color, alpha |-> stroke.opacity, strokeWidth |-> stroke.size,
     style |-> "stroke", antiAlias |-> TRUE, cap |-> "round", join |-> "round",
     blendMode |-> stroke.blendMode, blur |-> (stroke.brush.type = "airbrush")]

(***************************************************************************)
(* Brush dynamics (DrawingEngine.ts:318-360).                              *)
(***************************************************************************)
\* calculateBrushSize with the pressure curve upside down
calculateBrushSizeInverted(pressure, brush) ==
    LET baseSize == brush.size
        minSize == baseSize \div 10
        maxSize == baseSize
    IN  IF ~brush.pressureSize THEN baseSize
        ELSE minSize + ((maxSize - minSize) * (10 - pressure)) \div 10

calculateBrushSize(pressure, brush) ==
    LET baseSize == brush.size
        minSize == baseSize \div 10
        maxSize == baseSize
    IN  IF ~brush.pressureSize THEN baseSize
        ELSE minSize + ((maxSize - minSize) * pressure) \div 10

calculateBrushOpacity(pressure, brush) ==
    LET baseOpacity == brush.opacity
        minOpacity == baseOpacity \div 10
        maxOpacity == baseOpacity
    IN  IF ~brush.pressureOpacity THEN baseOpacity
        ELSE minOpacity + ((maxOpacity - minOpacity) * pressure) \div 10

\* smoothPoint that blends with the spacing instead of 1 - spacing
smoothPointBySpacing(point, previousPoints, brush) ==
    IF Len(previousPoints) = 0 THEN point
    ELSE LET lastPt == previousPoints[Len(previousPoints)]
             smoothingFactor == brush.spacing
         IN  [x |-> lastPt.x + ((point.x - lastPt.x) * smoothingFactor) \div 10,
              y |-> lastPt.y + ((point.y - lastPt.y) * smoothingFactor) \div 10,
              pressure |-> point.pressure,
              timestamp |-> point.timestamp]

smoothPoint(point, previousPoints, brush) ==
    IF Len(previousPoints) = 0 THEN point
    ELSE LET lastPt == previousPoints[Len(previousPoints)]
             smoothingFactor == 10 - brush.spacing
         IN  [x |-> lastPt.x + ((point.x - lastPt.x) * smoothingFactor) \div 10,
              y |-> lastPt.y + ((point.y - lastPt.y) * smoothingFactor) \div 10,
              pressure |-> point.pressure,
              timestamp |-> point.timestamp]

(***************************************************************************)
(* JSON.parse(JSON.stringify(layers)) (DrawingEngine.ts:487, 503).         *)
(* Numbers, strings and booleans survive.  The Skia path and paint of a    *)
(* stroke are native objects: what comes back are plain objects that are   *)
(* no path and no paint.                                                   *)
(***************************************************************************)
JsonPath == << <<"json">> >>
JsonPaint == [json |-> TRUE]

jsonStroke(s) == [s EXCEPT !.path = JsonPath, !.paint = JsonPaint]

jsonLayers(lyrs) ==
    [i \in 1 .. Len(lyrs) |->
        [lyrs[i] EXCEPT !.strokes =
            [j \in 1 .. Len(lyrs[i].strokes) |-> jsonStroke(lyrs[i].strokes[j])]]]

(***************************************************************************)
(* Layers (DrawingEngine.ts:146-160, 364-435).                             *)
(***************************************************************************)
newLayer(id, order) ==
    [id |-> id, strokes |-> << >>, opacity |-> 10, visible |-> TRUE,
     locked |-> FALSE, order |-> order]

\* Array.prototype.findIndex, 1-based; 0 when no layer has the id
findIndex(lyrs, layerId) ==
    IF \E i \in 1 .. Len(lyrs) : lyrs[i].id = layerId
    THEN CHOOSE i \in 1 .. Len(lyrs) :
            /\ lyrs[i].id = layerId
            /\ \A j \in 1 .. (i - 1) : lyrs[j].id # layerId
    ELSE 0

getActiveLayer(lyrs, activeId) ==
    IF findIndex(lyrs, activeId) = 0 THEN Null ELSE lyrs[findIndex(lyrs, activeId)]

splice(seq, index) ==
    [i \in 1 .. (Len(seq) - 1) |-> IF i < index THEN seq[i] ELSE seq[i + 1]]

\* Array.prototype.sort with (a, b) => a.order - b.order, which is stable: a layer goes
\* behind the layers of the same order that precede it in the array
RECURSIVE sortByOrder(_)
sortByOrder(lyrs) ==
    IF Len(lyrs) = 0 THEN << >>
    ELSE LET layer == lyrs[Len(lyrs)]
             sorted == sortByOrder(SubSeq(lyrs, 1, Len(lyrs) - 1))
             k == Cardinality({i \in 1 .. Len(sorted) : sorted[i].order <= layer.order})
         IN  SubSeq(sorted, 1, k) \o <<layer>> \o SubSeq(sorted, k + 1, Len(sorted))

\* getLayers: line 414
getLayers(lyrs) == sortByOrder(lyrs)

(***************************************************************************)
(* History (DrawingEngine.ts:481-519).                                     *)
(***************************************************************************)
\* saveState without line 483
saveStateKeepFuture(hist, index, lyrs, activeId, seq) ==
    LET pushed == Append(hist, [layers |-> jsonLayers(lyrs), activeLayerId |-> activeId,
                                seq |-> seq])
    IN  IF Len(pushed) > maxHistorySize
        THEN [history |-> Tail(pushed), historyIndex |-> (index + 1) - 1]
        ELSE [history |-> pushed, historyIndex |-> index + 1]

\* saveState without lines 496-499
saveStateUnlimited(hist, index, lyrs, activeId, seq) ==
    [history |-> Append(SubSeq(hist, 1, index + 1),
                        [layers |-> jsonLayers(lyrs), activeLayerId |-> activeId,
                         seq |-> seq]),
     historyIndex |-> index + 1]

\* saveState without line 498
saveStateEvictingOnly(hist, index, lyrs, activeId, seq) ==
    LET pushed == Append(SubSeq(hist, 1, index + 1),
                         [layers |-> jsonLayers(lyrs), activeLayerId |-> activeId,
                          seq |-> seq])
    IN  IF Len(pushed) > maxHistorySize
        THEN [history |-> Tail(pushed), historyIndex |-> index + 1]
        ELSE [history |-> pushed, historyIndex |-> index + 1]

\* the history and cursor saveState leaves; `seq`, the number of the push, stands for
\* the entry's timestamp
saveState(hist, index, lyrs, activeId, seq) ==
    LET kept == SubSeq(hist, 1, index + 1)
        state == [layers |-> jsonLayers(lyrs), activeLayerId |-> activeId, seq |-> seq]
        pushed == Append(kept, state)
    IN  IF Len(pushed) > maxHistorySize
        THEN [history |-> Tail(pushed), historyIndex |-> (index + 1) - 1]
        ELSE [history |-> pushed, historyIndex |-> index + 1]

rebuildSkiaObjects(lyrs, brush) ==
    [i \in 1 .. Len(lyrs) |->
        [lyrs[i] EXCEPT !.strokes =
            [j \in 1 .. Len(lyrs[i].strokes) |->
                LET stroke == lyrs[i].strokes[j]
                IN  IF Len(stroke.points) > 0
                    THEN [stroke EXCEPT !.path = createPath(stroke.points, brush),
                                        !.paint = createPaint(stroke)]
                    ELSE stroke]]]

\* restoreState that forgets line 504
restoreStateLayersOnly(state, brush) ==
    [layers |-> rebuildSkiaObjects(jsonLayers(state.layers), brush),
     activeLayerId |-> activeLayerId]

\* the layers and active layer restoreState leaves
restoreState(state, brush) ==
    [layers |-> rebuildSkiaObjects(jsonLayers(state.layers), brush),
     activeLayerId |-> state.activeLayerId]

\* this.history[index]: the array is 0-based, the sequence 1-based
entryAt(hist, index) == hist[index + 1]

\* what undo and redo compare the cursor with
undoRefused(index) == index <= 0
redoRefused(index, hist) == index >= Len(hist) - 1

(***************************************************************************)
(* Canvas management (DrawingEngine.ts:164-177).                           *)
(***************************************************************************)
setCanvasSize(width, height) ==
    /\ canvasWidth' = width
    /\ canvasHeight' = height
    /\ UNCHANGED <<backgroundColor, brushVars, strokeVars, layerVars, historyVars>>
    /\ last' = Call("setCanvasSize", TRUE, <<Event("canvas:resized", 0)>>)

setBackgroundColor(color) ==
    /\ backgroundColor' = color
    /\ UNCHANGED <<canvasWidth, canvasHeight, brushVars, strokeVars, layerVars, historyVars>>
    /\ last' = Call("setBackgroundColor", TRUE, <<Event("canvas:background_changed", 0)>>)

(***************************************************************************)
(* Drawing operations (DrawingEngine.ts:181-251).                          *)
(***************************************************************************)
\* the guards of startStroke without the lock test of line 185
startStrokeRejectedNoLock ==
    \/ isDrawing
    \/ getActiveLayer(layers, activeLayerId) = Null

\* the guards of startStroke: lines 182-185
startStrokeRejected ==
    \/ isDrawing
    \/ getActiveLayer(layers, activeLayerId) = Null
    \/ getActiveLayer(layers, activeLayerId).locked

\* the stroke of a generateStrokeId that leaves the counter out of the id: the id is
\* the time alone
newStrokeTimestampId(point) ==
    LET stroke == [id |-> point.timestamp,
                   points |-> <<point>>,
                   brush |-> activeBrush,
                   color |-> activeColor,
                   size |-> calculateBrushSize(point.pressure, activeBrush),
                   opacity |-> calculateBrushOpacity(point.pressure, activeBrush),
                   blendMode |-> activeBrush.blendMode,
                   layerId |-> activeLayerId]
    IN  [id |-> stroke.id, points |-> stroke.points, brush |-> stroke.brush,
         color |-> stroke.color, size |-> stroke.size, opacity |-> stroke.opacity,
         blendMode |-> stroke.blendMode, layerId |-> stroke.layerId,
         path |-> createPath(<<point>>, activeBrush),
         paint |-> createPaint(stroke)]

\* the stroke startStroke builds: lines 188-202
newStroke(point) ==
    LET stroke == [id |-> strokeIdCounter + 1,
                   points |-> <<point>>,
                   brush |-> activeBrush,
                   color |-> activeColor,
                   size |-> calculateBrushSize(point.pressure, activeBrush),
                   opacity |-> calculateBrushOpacity(point.pressure, activeBrush),
                   blendMode |-> activeBrush.blendMode,
                   layerId |-> activeLayerId]
    IN  [id |-> stroke.id, points |-> stroke.points, brush |-> stroke.brush,
         color |-> stroke.color, size |-> stroke.size, opacity |-> stroke.opacity,
         blendMode |-> stroke.blendMode, layerId |-> stroke.layerId,
         path |-> createPath(<<point>>, activeBrush),
         paint |-> createPaint(stroke)]

\* startStroke that puts the stroke into its layer before it saves the state
startStrokeSavingStroke(point) ==
    IF startStrokeRejected
    THEN /\ last' = Call("startStroke", FALSE, << >>)
         /\ UNCHANGED engineVars
    ELSE LET stroke == newStroke(point)
             saved == saveState(history, historyIndex,
                                [layers EXCEPT ![findIndex(layers, activeLayerId)].strokes =
                                    Append(@, stroke)],
                                activeLayerId, pushCount + 1)
         IN  /\ strokeIdCounter' = strokeIdCounter + 1
             /\ currentStroke' = stroke
             /\ isDrawing' = TRUE
             /\ history' = saved.history
             /\ historyIndex' = saved.historyIndex
             /\ pushCount' = pushCount + 1
             /\ UNCHANGED <<canvasVars, brushVars, layerVars>>
             /\ last' = Call("startStroke", TRUE, <<Event("stroke:started", stroke.id)>>)

startStroke(point) ==
    IF startStrokeRejected
    THEN /\ last' = Call("startStroke", FALSE, << >>)
         /\ UNCHANGED engineVars
    ELSE LET stroke == newStroke(point)
             saved == saveState(history, historyIndex, layers, activeLayerId, pushCount + 1)
         IN  /\ strokeIdCounter' = strokeIdCounter + 1
             /\ currentStroke' = stroke
             /\ isDrawing' = TRUE
             /\ history' = saved.history
             /\ historyIndex' = saved.historyIndex
             /\ pushCount' = pushCount + 1
             /\ UNCHANGED <<canvasVars, brushVars, layerVars>>
             /\ last' = Call("startStroke", TRUE, <<Event("stroke:started", stroke.id)>>)

\* the guard of addStrokePoint and of endStroke: lines 215, 234
notDrawing == ~isDrawing \/ currentStroke = Null

\* the current stroke after addStrokePoint: lines 218-228
extendStroke(stroke, point) ==
    LET smoothedPoint == smoothPoint(point, stroke.points, activeBrush)
        points == Append(stroke.points, smoothedPoint)
    IN  [stroke EXCEPT !.points = points,
                       !.size = calculateBrushSize(smoothedPoint.pressure, activeBrush),
                       !.opacity = calculateBrushOpacity(smoothedPoint.pressure, activeBrush),
                       !.path = createPath(points, activeBrush)]

\* addStrokePoint without line 230
addStrokePointSilent(point) ==
    IF notDrawing
    THEN /\ last' = Call("addStrokePoint", FALSE, << >>)
         /\ UNCHANGED engineVars
    ELSE /\ currentStroke' = extendStroke(currentStroke, point)
         /\ UNCHANGED <<canvasVars, brushVars, isDrawing, strokeIdCounter, layerVars,
                        historyVars>>
         /\ last' = Call("addStrokePoint", TRUE, << >>)

addStrokePoint(point) ==
    IF notDrawing
    THEN /\ last' = Call("addStrokePoint", FALSE, << >>)
         /\ UNCHANGED engineVars
    ELSE /\ currentStroke' = extendStroke(currentStroke, point)
         /\ UNCHANGED <<canvasVars, brushVars, isDrawing, strokeIdCounter, layerVars,
                        historyVars>>
         /\ last' = Call("addStrokePoint", TRUE, <<Event("stroke:updated", currentStroke.id)>>)

\* the current stroke after lines 237-238 of endStroke
finishStroke(stroke) ==
    [stroke EXCEPT !.path = createPath(stroke.points, activeBrush),
                   !.paint = createPaint(stroke)]

\* the layers after endStroke: lines 241-244
appendStroke(lyrs, activeId, stroke) ==
    LET index == findIndex(lyrs, activeId)
    IN  IF index = 0 THEN lyrs
        ELSE [lyrs EXCEPT ![index].strokes = Append(@, finishStroke(stroke))]

\* endStroke that emits before it tests the guard of line 234
endStrokeEmittingFirst ==
    IF notDrawing
    THEN /\ UNCHANGED engineVars
         /\ last' = Call("endStroke", FALSE, <<Event("stroke:completed", 0)>>)
    ELSE /\ layers' = appendStroke(layers, activeLayerId, currentStroke)
         /\ currentStroke' = Null
         /\ isDrawing' = FALSE
         /\ UNCHANGED <<canvasVars, brushVars, strokeIdCounter, activeLayerId,
                        layerIdCounter, historyVars>>
         /\ last' = Call("endStroke", TRUE, <<Event("stroke:completed", currentStroke.id)>>)

\* endStroke that saves the state, as the engine of engines/drawing (V1.1) does
endStrokeSaving ==
    IF notDrawing
    THEN /\ last' = Call("endStroke", FALSE, << >>)
         /\ UNCHANGED engineVars
    ELSE LET appended == appendStroke(layers, activeLayerId, currentStroke)
             saved == saveState(history, historyIndex, appended, activeLayerId,
                                pushCount + 1)
         IN  /\ layers' = appended
             /\ currentStroke' = Null
             /\ isDrawing' = FALSE
             /\ history' = saved.history
             /\ historyIndex' = saved.historyIndex
             /\ pushCount' = pushCount + 1
             /\ UNCHANGED <<canvasVars, brushVars, strokeIdCounter, activeLayerId,
                            layerIdCounter>>
             /\ last' = Call("endStroke", TRUE,
                             <<Event("stroke:completed", currentStroke.id)>>)

\* endStroke without line 249
endStrokeKeepingStroke ==
    IF notDrawing
    THEN /\ last' = Call("endStroke", FALSE, << >>)
         /\ UNCHANGED engineVars
    ELSE /\ layers' = appendStroke(layers, activeLayerId, currentStroke)
         /\ currentStroke' = finishStroke(currentStroke)
         /\ isDrawing' = FALSE
         /\ UNCHANGED <<canvasVars, brushVars, strokeIdCounter, activeLayerId,
                        layerIdCounter, historyVars>>
         /\ last' = Call("endStroke", TRUE,
                         <<Event("stroke:completed", currentStroke.id)>>)

\* 'stroke:completed' is emitted at line 246, before lines 249-250 reset the current
\* stroke and the flag; these lines are skipped when emit raises
endStroke ==
    IF notDrawing
    THEN /\ last' = Call("endStroke", FALSE, << >>)
         /\ UNCHANGED engineVars
    ELSE LET appended == appendStroke(layers, activeLayerId, currentStroke)
             atEmit == [Observed EXCEPT !.layers = appended,
                                        !.currentStroke = finishStroke(currentStroke)]
             event == EventAt("stroke:completed", currentStroke.id, atEmit)
             raised == emit(listeners, event).raised
         IN  /\ layers' = appended
             /\ currentStroke' = IF raised THEN atEmit.currentStroke ELSE Null
             /\ isDrawing' = raised
             /\ UNCHANGED <<canvasVars, brushVars, strokeIdCounter, activeLayerId,
                            layerIdCounter, historyVars>>
             /\ last' = Call("endStroke", TRUE, <<event>>)

(***************************************************************************)
(* Layer management (DrawingEngine.ts:364-435).                            *)
(***************************************************************************)
createLayer ==
    LET layer == newLayer(layerIdCounter + 1, Len(layers))
    IN  /\ layerIdCounter' = layerIdCounter + 1
        /\ layers' = Append(layers, layer)
        /\ UNCHANGED <<canvasVars, brushVars, strokeVars, activeLayerId, historyVars>>
        /\ last' = Call("createLayer", TRUE, <<Event("layer:created", layer.id)>>)

\* the guards of deleteLayer without line 383
deleteLayerRefusedUnknownOnly(lyrs, layerId) ==
    findIndex(lyrs, layerId) = 0

\* the guards of deleteLayer: lines 383-386
deleteLayerRefused(lyrs, layerId) ==
    Len(lyrs) <= 1 \/ findIndex(lyrs, layerId) = 0

\* deleteLayer without the reassignment of lines 391-393
activeAfterDeleteKeeping(remaining, activeId, layerId) ==
    activeId

\* the active layer after deleteLayer removed layerId: lines 391-393
activeAfterDelete(remaining, activeId, layerId) ==
    IF activeId = layerId
    THEN (IF Len(remaining) > 0 THEN remaining[1].id ELSE 0)
    ELSE activeId

deleteLayer(layerId) ==
    IF deleteLayerRefused(layers, layerId)
    THEN /\ last' = Call("deleteLayer", FALSE, << >>)
         /\ UNCHANGED engineVars
    ELSE LET remaining == splice(layers, findIndex(layers, layerId))
         IN  /\ layers' = remaining
             /\ activeLayerId' = activeAfterDelete(remaining, activeLayerId, layerId)
             /\ UNCHANGED <<canvasVars, brushVars, strokeVars, layerIdCounter, historyVars>>
             /\ last' = Call("deleteLayer", TRUE, <<Event("layer:deleted", layerId)>>)

\* setActiveLayer without the test of line 401
setActiveLayerUnchecked(layerId) ==
    /\ activeLayerId' = layerId
    /\ UNCHANGED <<canvasVars, brushVars, strokeVars, layers, layerIdCounter, historyVars>>
    /\ last' = Call("setActiveLayer", TRUE, <<Event("layer:activated", layerId)>>)

setActiveLayer(layerId) ==
    IF findIndex(layers, layerId) = 0
    THEN /\ last' = Call("setActiveLayer", FALSE, << >>)
         /\ UNCHANGED engineVars
    ELSE /\ activeLayerId' = layerId
         /\ UNCHANGED <<canvasVars, brushVars, strokeVars, layers, layerIdCounter,
                        historyVars>>
         /\ last' = Call("setActiveLayer", TRUE, <<Event("layer:activated", layerId)>>)

\* setLayerOpacity that saves the state first, as clearLayer does
setLayerOpacitySaving(layerId, opacity) ==
    IF findIndex(layers, layerId) = 0
    THEN /\ last' = Call("setLayerOpacity", FALSE, << >>)
         /\ UNCHANGED engineVars
    ELSE LET saved == saveState(history, historyIndex, layers, activeLayerId, pushCount + 1)
         IN  /\ history' = saved.history
             /\ historyIndex' = saved.historyIndex
             /\ pushCount' = pushCount + 1
             /\ layers' = [layers EXCEPT ![findIndex(layers, layerId)].opacity =
                                Max(0, Min(10, opacity))]
             /\ UNCHANGED <<canvasVars, brushVars, strokeVars, activeLayerId,
                            layerIdCounter>>
             /\ last' = Call("setLayerOpacity", TRUE,
                             <<Event("layer:opacity_changed", layerId)>>)

setLayerOpacity(layerId, opacity) ==
    IF findIndex(layers, layerId) = 0
    THEN /\ last' = Call("setLayerOpacity", FALSE, << >>)
         /\ UNCHANGED engineVars
    ELSE /\ layers' = [layers EXCEPT ![findIndex(layers, layerId)].opacity =
                            Max(0, Min(10, opacity))]
         /\ UNCHANGED <<canvasVars, brushVars, strokeVars, activeLayerId, layerIdCounter,
                        historyVars>>
         /\ last' = Call("setLayerOpacity", TRUE, <<Event("layer:opacity_changed", layerId)>>)

setLayerVisibility(layerId, visible) ==
    IF findIndex(layers, layerId) = 0
    THEN /\ last' = Call("setLayerVisibility", FALSE, << >>)
         /\ UNCHANGED engineVars
    ELSE /\ layers' = [layers EXCEPT ![findIndex(layers, layerId)].visible = visible]
         /\ UNCHANGED <<canvasVars, brushVars, strokeVars, activeLayerId, layerIdCounter,
                        historyVars>>
         /\ last' = Call("setLayerVisibility", TRUE,
                         <<Event("layer:visibility_changed", layerId)>>)

(***************************************************************************)
(* Brush management (DrawingEngine.ts:439-457).                            *)
(***************************************************************************)
setBrush(brush) ==
    /\ activeBrush' = brush
    /\ UNCHANGED <<canvasVars, activeColor, strokeVars, layerVars, historyVars>>
    /\ last' = Call("setBrush", TRUE, <<Event("brush:changed", 0)>>)

setColor(color) ==
    /\ activeColor' = color
    /\ UNCHANGED <<canvasVars, activeBrush, strokeVars, layerVars, historyVars>>
    /\ last' = Call("setColor", TRUE, <<Event("color:changed", 0)>>)

\* setBrushSize when startStroke stores this.activeBrush itself in the stroke instead of
\* the copy of line 191: the strokes drawn with the active brush change with it
setBrushSizeShared(size) ==
    /\ activeBrush' = [activeBrush EXCEPT !.size = Max(1 * Unit, Min(100 * Unit, size))]
    /\ layers' = [i \in 1 .. Len(layers) |->
                    [layers[i] EXCEPT !.strokes =
                        [j \in 1 .. Len(layers[i].strokes) |->
                            IF layers[i].strokes[j].brush = activeBrush
                            THEN [layers[i].strokes[j] EXCEPT !.brush = activeBrush']
                            ELSE layers[i].strokes[j]]]]
    /\ UNCHANGED <<canvasVars, activeColor, strokeVars, activeLayerId, layerIdCounter,
                   historyVars>>
    /\ last' = Call("setBrushSize", TRUE, <<Event("brush:size_changed", 0)>>)

setBrushSize(size) ==
    /\ activeBrush' = [activeBrush EXCEPT !.size = Max(1 * Unit, Min(100 * Unit, size))]
    /\ UNCHANGED <<canvasVars, activeColor, strokeVars, layerVars, historyVars>>
    /\ last' = Call("setBrushSize", TRUE, <<Event("brush:size_changed", 0)>>)

setBrushOpacity(opacity) ==
    /\ activeBrush' = [activeBrush EXCEPT !.opacity = Max(0, Min(1 * Unit, opacity))]
    /\ UNCHANGED <<canvasVars, activeColor, strokeVars, layerVars, historyVars>>
    /\ last' = Call("setBrushOpacity", TRUE, <<Event("brush:opacity_changed", 0)>>)

(***************************************************************************)
(* History management (DrawingEngine.ts:461-479).                          *)
(***************************************************************************)
\* undo that also drops the stroke in progress
undoCancelling ==
    IF undoRefused(historyIndex)
    THEN /\ last' = Call("undo", FALSE, << >>)
         /\ UNCHANGED engineVars
    ELSE LET restored == restoreState(entryAt(history, historyIndex - 1), activeBrush)
         IN  /\ historyIndex' = historyIndex - 1
             /\ layers' = restored.layers
             /\ activeLayerId' = restored.activeLayerId
             /\ currentStroke' = Null
             /\ isDrawing' = FALSE
             /\ UNCHANGED <<canvasVars, brushVars, strokeIdCounter, layerIdCounter, history,
                            pushCount>>
             /\ last' = Call("undo", TRUE, <<Event("history:undo", historyIndex - 1)>>)

undo ==
    IF undoRefused(historyIndex)
    THEN /\ last' = Call("undo", FALSE, << >>)
         /\ UNCHANGED engineVars
    ELSE LET restored == restoreState(entryAt(history, historyIndex - 1), activeBrush)
         IN  /\ historyIndex' = historyIndex - 1
             /\ layers' = restored.layers
             /\ activeLayerId' = restored.activeLayerId
             /\ UNCHANGED <<canvasVars, brushVars, strokeVars, layerIdCounter, history,
                            pushCount>>
             /\ last' = Call("undo", TRUE, <<Event("history:undo", historyIndex - 1)>>)

redo ==
    IF redoRefused(historyIndex, history)
    THEN /\ last' = Call("redo", FALSE, << >>)
         /\ UNCHANGED engineVars
    ELSE LET restored == restoreState(entryAt(history, historyIndex + 1), activeBrush)
         IN  /\ historyIndex' = historyIndex + 1
             /\ layers' = restored.layers
             /\ activeLayerId' = restored.activeLayerId
             /\ UNCHANGED <<canvasVars, brushVars, strokeVars, layerIdCounter, history,
                            pushCount>>
             /\ last' = Call("redo", TRUE, <<Event("history:redo", historyIndex + 1)>>)

(***************************************************************************)
(* Clear operations (DrawingEngine.ts:523-542).                            *)
(***************************************************************************)
\* clearCanvas that empties the active layer only
clearCanvasActiveOnly ==
    LET saved == saveState(history, historyIndex, layers, activeLayerId, pushCount + 1)
    IN  /\ history' = saved.history
        /\ historyIndex' = saved.historyIndex
        /\ pushCount' = pushCount + 1
        /\ layers' = [i \in 1 .. Len(layers) |->
                        IF layers[i].id = activeLayerId
                        THEN [layers[i] EXCEPT !.strokes = << >>]
                        ELSE layers[i]]
        /\ UNCHANGED <<canvasVars, brushVars, strokeVars, activeLayerId, layerIdCounter>>
        /\ last' = Call("clearCanvas", TRUE, <<Event("canvas:cleared", 0)>>)

clearCanvas ==
    LET saved == saveState(history, historyIndex, layers, activeLayerId, pushCount + 1)
    IN  /\ history' = saved.history
        /\ historyIndex' = saved.historyIndex
        /\ pushCount' = pushCount + 1
        /\ layers' = [i \in 1 .. Len(layers) |-> [layers[i] EXCEPT !.strokes = << >>]]
        /\ UNCHANGED <<canvasVars, brushVars, strokeVars, activeLayerId, layerIdCounter>>
        /\ last' = Call("clearCanvas", TRUE, <<Event("canvas:cleared", 0)>>)

clearLayer(layerId) ==
    IF findIndex(layers, layerId) = 0
    THEN /\ last' = Call("clearLayer", FALSE, << >>)
         /\ UNCHANGED engineVars
    ELSE LET saved == saveState(history, historyIndex, layers, activeLayerId, pushCount + 1)
         IN  /\ history' = saved.history
             /\ historyIndex' = saved.historyIndex
             /\ pushCount' = pushCount + 1
             /\ layers' = [layers EXCEPT ![findIndex(layers, layerId)].strokes = << >>]
             /\ UNCHANGED <<canvasVars, brushVars, strokeVars, activeLayerId,
                            layerIdCounter>>
             /\ last' = Call("clearLayer", TRUE, <<Event("layer:cleared", layerId)>>)

(***************************************************************************)
(* The caller locks or unlocks a layer.  The engine has no method for it:  *)
(* createLayer, getActiveLayer and getLayers hand out the engine's own     *)
(* Layer objects (DrawingEngine.ts:379, 410, 414), whose `locked` field    *)
(* (line 52) the caller assigns.  Nothing is emitted.                      *)
(***************************************************************************)
assignLocked(layerId, locked) ==
    /\ findIndex(layers, layerId) # 0
    /\ layers' = [layers EXCEPT ![findIndex(layers, layerId)].locked = locked]
    /\ UNCHANGED <<canvasVars, brushVars, strokeVars, activeLayerId, layerIdCounter,
                   historyVars>>
    /\ last' = Call("layer.locked=", TRUE, << >>)

(***************************************************************************)
(* Export (DrawingEngine.ts:546-560): no await, so the body runs within    *)
(* the call.                                                               *)
(***************************************************************************)
exportAsPNG ==
    /\ UNCHANGED engineVars
    /\ last' = Call("exportAsPNG", TRUE,
                    <<Event("export:started", 0), Event("export:completed", 0)>>)

(***************************************************************************)
(* The canvas component SkiaCanvas (src/src/components/Canvas.tsx).  It    *)
(* subscribes to the engine when it is mounted, maps the gestures of its   *)
(* PanResponder to the stroke operations, and hands clear, undo and redo   *)
(* to its parent.  One pixel is Pixel units of the model's coordinates.    *)
(***************************************************************************)
Pixel == Grid \div 2

\* the native events of a gesture: a position, the time, and the force in tenths, 0 when
\* the device reports none
TouchEvents ==
    {[locationX |-> 0, locationY |-> 0, timestamp |-> 1, force |-> 0],
     [locationX |-> Pixel, locationY |-> 0, timestamp |-> 2, force |-> 15],
     [locationX |-> Grid, locationY |-> 2 * Grid, timestamp |-> 2, force |-> 15]}

\* Canvas.tsx:145-172 without the velocity
extractPointFromEvent(event) ==
    [x |-> event.locationX, y |-> event.locationY,
     pressure |-> IF event.force > 0 THEN Min(event.force, 10) ELSE 5,
     timestamp |-> event.timestamp]

\* the effect of Canvas.tsx:57-97 when the component is mounted: setCanvasSize, then one
\* handler per event; those of the stroke events call the callbacks of the parent,
\* which return or throw
useEffect(width, height, callback) ==
    LET quiet == CHOOSE h \in Handlers : h.kind = "returns"
        subscriptions ==
            [e \in {"stroke:started", "stroke:updated", "stroke:completed",
                     "layer:created", "canvas:cleared"} |->
                IF e \in {"layer:created", "canvas:cleared"}
                THEN <<quiet>> ELSE <<callback>>]
    IN  /\ canvasWidth' = width
        /\ canvasHeight' = height
        /\ listeners' = subscriptions
        /\ subscribed' = subscriptions
        /\ delivered' = [calls |-> << >>, raised |-> FALSE]
        /\ UNCHANGED <<backgroundColor, brushVars, strokeVars, layerVars, historyVars>>
        /\ last' = Call("setCanvasSize", TRUE, <<Event("canvas:resized", 0)>>)

\* Canvas.tsx:174-185
handleTouchStart(event) ==
    LET point == extractPointFromEvent(event)
    IN  /\ lastPoint' = point
        /\ startStroke(point)
        /\ Emitting

\* Canvas.tsx:191-197: the sample is less than two pixels from the last one
tooClose(point) ==
    /\ lastPoint # Null
    /\ (point.x - lastPoint.x) * (point.x - lastPoint.x)
            + (point.y - lastPoint.y) * (point.y - lastPoint.y) < (2 * Pixel) * (2 * Pixel)

\* Canvas.tsx:187-202
handleTouchMove(event) ==
    LET point == extractPointFromEvent(event)
    IN  IF tooClose(point)
        THEN UNCHANGED <<engineVars, eventVars, last, lastPoint>>
        ELSE /\ lastPoint' = point
             /\ addStrokePoint(point)
             /\ Emitting

\* a handler of the end of the gesture that does not call endStroke
handleTouchEndAbandoning ==
    /\ lastPoint' = Null
    /\ UNCHANGED engineVars
    /\ last' = Call("handleTouchEnd", TRUE, << >>)
    /\ Emitting

\* Canvas.tsx:204-213
handleTouchEnd ==
    /\ endStroke
    /\ lastPoint' = Null
    /\ Emitting

(***************************************************************************)
(* The single-layer DrawingEngine V1.1 (src/unnamed/part_001).  Its        *)
(* operations carry the prefix V1_ where the name is also a name of        *)
(* SkiaDrawingEngine.  A stroke that has no path yet has the empty path    *)
(* and the paint Null.                                                     *)
(***************************************************************************)
\* the BrushSettings a caller passes to startStroke: the values of lines 18-20
LegacySettings == [color |-> "#000000", size |-> 4 * Unit, opacity |-> Unit]

\* lines 10-23
V1_constructor ==
    [state |-> [strokes |-> << >>, currentStroke |-> Null, color |-> "#000000",
                brushSize |-> 4 * Unit, opacity |-> Unit, isDrawing |-> FALSE],
     history |-> << >>,
     historyIndex |-> -1,
     strokeIdCounter |-> 0]

\* lines 105-121
V1_createPath(points) ==
    IF Len(points) = 0 THEN << >>
    ELSE IF Len(points) = 1
    THEN << <<"addCircle", points[1].x, points[1].y, 2 * Unit>> >>
    ELSE << <<"moveTo", points[1].x, points[1].y>> >>
            \o quadSegments(points, 2)
            \o << <<"lineTo", points[Len(points)].x, points[Len(points)].y>> >>

\* lines 123-139
V1_createPaint(stroke) ==
    [color |-> stroke.color, alpha |-> stroke.opacity, strokeWidth |-> stroke.size,
     style |-> "stroke", antiAlias |-> TRUE, cap |-> "round", join |-> "round",
     blendMode |-> "SrcOver"]

\* lines 142-147: f is 0.3
V1_smoothPoint(point, previous) ==
    IF Len(previous) = 0 THEN point
    ELSE LET lastPt == previous[Len(previous)]
         IN  [x |-> lastPt.x + ((point.x - lastPt.x) * 3) \div 10,
              y |-> lastPt.y + ((point.y - lastPt.y) * 3) \div 10,
              pressure |-> point.pressure,
              timestamp |-> point.timestamp]

\* JSON.parse(JSON.stringify(stroke)): a path and a paint come back as plain objects
cloneStroke(stroke) ==
    IF stroke = Null THEN Null
    ELSE [stroke EXCEPT !.path = IF @ = << >> THEN << >> ELSE JsonPath,
                        !.paint = IF @ = Null THEN Null ELSE JsonPaint]

\* deepClone of a DrawingState: lines 159-161
deepClone(state) ==
    [state EXCEPT !.strokes = [i \in 1 .. Len(state.strokes) |-> cloneStroke(state.strokes[i])],
                  !.currentStroke = cloneStroke(@)]

\* the engine after saveToHistory: lines 149-157
saveToHistory(engine) ==
    LET pushed == Append(SubSeq(engine.history, 1, engine.historyIndex + 1),
                         deepClone(engine.state))
    IN  IF Len(pushed) > 50
        THEN [engine EXCEPT !.history = Tail(pushed), !.historyIndex = (@ + 1) - 1]
        ELSE [engine EXCEPT !.history = pushed, !.historyIndex = @ + 1]

\* what a call of the V1.1 engine leaves alone, and its record in `last`
LegacyCall(op, ok) ==
    /\ last' = Call(op, ok, << >>)
    /\ UNCHANGED <<engineVars, eventVars, auxCount, phase, nStrokes, nDone, preUndo,
                   lastPoint>>

\* lines 47-59
V1_startStroke(point, settings) ==
    LET stroke == [id |-> legacy.strokeIdCounter + 1,
                   points |-> <<point>>,
                   color |-> settings.color,
                   size |-> settings.size,
                   opacity |-> settings.opacity,
                   blendMode |-> "normal",
                   path |-> << >>,
                   paint |-> Null]
    IN  /\ legacy' = [legacy EXCEPT !.strokeIdCounter = @ + 1,
                                    !.state.currentStroke = stroke,
                                    !.state.isDrawing = TRUE]
        /\ LegacyCall("startStroke", TRUE)

\* lines 62-66
addPoint(point) ==
    IF legacy.state.currentStroke = Null \/ ~legacy.state.isDrawing
    THEN /\ UNCHANGED legacy
         /\ LegacyCall("addPoint", FALSE)
    ELSE /\ legacy' = [legacy EXCEPT !.state.currentStroke.points =
                            Append(@, V1_smoothPoint(point, @))]
         /\ LegacyCall("addPoint", TRUE)

\* lines 69-83: completedStroke is the object state.currentStroke refers to, and the
\* state is saved at line 77, before lines 79-80 reset the current stroke and the flag
V1_endStroke ==
    IF legacy.state.currentStroke = Null
    THEN /\ UNCHANGED legacy
         /\ LegacyCall("endStroke", FALSE)
    ELSE LET stroke == legacy.state.currentStroke
             completedStroke == [stroke EXCEPT !.path = V1_createPath(stroke.points),
                                               !.paint = V1_createPaint(stroke)]
             saved == saveToHistory(
                        [legacy EXCEPT !.state.strokes = Append(@, completedStroke),
                                       !.state.currentStroke = completedStroke])
         IN  /\ legacy' = [saved EXCEPT !.state.currentStroke = Null,
                                        !.state.isDrawing = FALSE]
             /\ LegacyCall("endStroke", TRUE)

\* lines 86-93
V1_undo ==
    IF legacy.historyIndex > 0
    THEN /\ legacy' = [legacy EXCEPT !.historyIndex = @ - 1,
                                    !.state = deepClone(legacy.history[(legacy.historyIndex - 1) + 1])]
         /\ LegacyCall("undo", TRUE)
    ELSE /\ UNCHANGED legacy
         /\ LegacyCall("undo", FALSE)

\* lines 95-102
V1_redo ==
    IF legacy.historyIndex < Len(legacy.history) - 1
    THEN /\ legacy' = [legacy EXCEPT !.historyIndex = @ + 1,
                                    !.state = deepClone(legacy.history[(legacy.historyIndex + 1) + 1])]
         /\ LegacyCall("redo", TRUE)
    ELSE /\ UNCHANGED legacy
         /\ LegacyCall("redo", FALSE)

\* lines 177-181
clear ==
    /\ legacy' = saveToHistory([legacy EXCEPT !.state.strokes = << >>,
                                              !.state.currentStroke = Null])
    /\ LegacyCall("clear", TRUE)

(***************************************************************************)
(* The engine after construction (DrawingEngine.ts:69-116).                *)
(***************************************************************************)
InitEngine ==
    /\ canvasWidth = 1024
    /\ canvasHeight = 768
    /\ backgroundColor = "#FFFFFF"
    /\ layerIdCounter = 1
    /\ layers = <<newLayer(1, 0)>>
    /\ activeLayerId = 1
    /\ currentStroke = Null
    /\ isDrawing = FALSE
    /\ activeBrush = DefaultBrush
    /\ activeColor = "#000000"
    /\ history = << >>
    /\ historyIndex = -1
    /\ strokeIdCounter = 0
    /\ listeners = [e \in {} |-> << >>]
    /\ pushCount = 0
    /\ last = Call("constructor", TRUE, << >>)

InitScenario(ph) ==
    /\ phase = ph
    /\ nStrokes = 0
    /\ nDone = 0
    /\ preUndo = [layers |-> << >>, activeLayerId |-> 0]
    /\ auxCount = 0
    /\ delivered = [calls |-> << >>, raised |-> FALSE]
    /\ subscribed = [e \in {} |-> << >>]
    /\ lastPoint = Null
    /\ legacy = V1_constructor

Init == InitEngine /\ InitScenario("free")

(***************************************************************************)
(* Spec: every public operation, called in any order with inputs from      *)
(* small sets, under the bounds.                                           *)
(***************************************************************************)
\* a call of startStroke, clearCanvas or clearLayer that would push stays within MaxPushes
PushAllowed == pushCount < MaxPushes

\* a call of a layer operation or of a setter stays within AuxBudget
Budgeted(cost) ==
    /\ auxCount + cost <= AuxBudget
    /\ auxCount' = auxCount + cost
    /\ UNCHANGED scenarioVars
    /\ Emitting

StartStroke ==
    \E p \in DownSamples :
        /\ ~startStrokeRejected => PushAllowed
        /\ startStroke(p)
        /\ Unbudgeted

AddStrokePoint ==
    \E p \in MoveSamples :
        /\ ~notDrawing => Len(currentStroke.points) < MaxPoints
        /\ addStrokePoint(p)
        /\ Unbudgeted

EndStroke == endStroke /\ Unbudgeted

CreateLayer == createLayer /\ Budgeted(1)

DeleteLayer == \E id \in LayerIds : deleteLayer(id) /\ Budgeted(1)

SetActiveLayer == \E id \in LayerIds : setActiveLayer(id) /\ Budgeted(1)

SetLayerOpacity ==
    \E id \in LayerIds, o \in {5, 15} : setLayerOpacity(id, o) /\ Budgeted(2)

SetLayerVisibility ==
    \E id \in LayerIds : setLayerVisibility(id, FALSE) /\ Budgeted(2)

SetBrush == \E b \in Brushes \ {activeBrush} : setBrush(b) /\ Budgeted(2)

SetColor == \E c \in Colors \ {activeColor} : setColor(c) /\ Budgeted(2)

SetBrushSize == \E s \in {200 * Unit} : setBrushSize(s) /\ Budgeted(2)

SetBrushOpacity == \E o \in {Unit \div 2} : setBrushOpacity(o) /\ Budgeted(2)

SetCanvasSize == setCanvasSize(800, 600) /\ Budgeted(2)

SetBackgroundColor == setBackgroundColor("#EEEEEE") /\ Budgeted(2)

Undo == undo /\ Unbudgeted

Redo == redo /\ Unbudgeted

ClearCanvas == PushAllowed /\ clearCanvas /\ Unbudgeted

ClearLayer ==
    \E id \in LayerIds :
        /\ findIndex(layers, id) # 0 => PushAllowed
        /\ clearLayer(id)
        /\ Unbudgeted

ExportAsPNG == exportAsPNG /\ Unbudgeted

\* endStroke called while Drawing
EndCurrentStroke == isDrawing /\ endStroke /\ Unbudgeted

\* all strokes of all layers
RECURSIVE AllStrokes(_)
AllStrokes(lyrs) ==
    IF Len(lyrs) = 0 THEN << >> ELSE lyrs[1].strokes \o AllStrokes(Tail(lyrs))

RECURSIVE PointCount(_)
PointCount(strokes) ==
    IF Len(strokes) = 0 THEN 0 ELSE Len(strokes[1].points) + PointCount(Tail(strokes))

\* the samples startStroke and addStrokePoint have taken: the points of the strokes of
\* the layers and of the current stroke
SamplesTaken ==
    PointCount(AllStrokes(layers))
        + (IF currentStroke = Null THEN 0 ELSE Len(currentStroke.points))

AssignLocked ==
    \E id \in 1 .. layerIdCounter :
        /\ assignLocked(id, ~getActiveLayer(layers, id).locked)
        /\ Budgeted(1)

Next ==
    \/ StartStroke
    \/ AddStrokePoint
    \/ EndStroke
    \/ CreateLayer
    \/ DeleteLayer
    \/ SetActiveLayer
    \/ SetLayerOpacity
    \/ SetLayerVisibility
    \/ SetBrush
    \/ SetColor
    \/ SetBrushSize
    \/ SetBrushOpacity
    \/ SetCanvasSize
    \/ SetBackgroundColor
    \/ Undo
    \/ Redo
    \/ ClearCanvas
    \/ ClearLayer
    \/ ExportAsPNG
    \/ AssignLocked

Spec == Init /\ [][Next]_vars

(***************************************************************************)
(* SpecRT: the undo/redo round trip.  On a fresh engine N strokes are      *)
(* completed (phase "draw"), then undo() is called N times (phase "undo"), *)
(* then redo() N times (phase "redo"); preUndo is the canvas state at the  *)
(* first undo().                                                           *)
(***************************************************************************)
\* the largest N
MaxRoundTrip == 3

InitRT == InitEngine /\ InitScenario("draw")

RT_StartStroke ==
    /\ phase = "draw"
    /\ ~isDrawing
    /\ strokeIdCounter < MaxRoundTrip
    /\ \E p \in Samples : startStroke(p)
    /\ Unbudgeted

RT_AddStrokePoint ==
    /\ phase = "draw"
    /\ isDrawing
    /\ Len(currentStroke.points) < MaxPoints
    /\ \E p \in Samples : addStrokePoint(p)
    /\ Unbudgeted

RT_EndStroke ==
    /\ phase = "draw"
    /\ isDrawing
    /\ endStroke
    /\ Unbudgeted

RT_Undo ==
    LET first == phase = "draw"
        n == IF first THEN strokeIdCounter ELSE nStrokes
        done == IF first THEN 1 ELSE nDone + 1
    IN  /\ phase \in {"draw", "undo"}
        /\ ~isDrawing
        /\ n >= 1
        /\ undo
        /\ preUndo' = IF first
                      THEN [layers |-> layers, activeLayerId |-> activeLayerId]
                      ELSE preUndo
        /\ nStrokes' = n
        /\ nDone' = IF done = n THEN 0 ELSE done
        /\ phase' = IF done = n THEN "redo" ELSE "undo"
        /\ UNCHANGED <<auxCount, lastPoint, legacy>>
        /\ Emitting

RT_Redo ==
    /\ phase = "redo"
    /\ redo
    /\ nDone' = nDone + 1
    /\ phase' = IF nDone + 1 = nStrokes THEN "done" ELSE "redo"
    /\ UNCHANGED <<nStrokes, preUndo, auxCount, lastPoint, legacy>>
    /\ Emitting

NextRT ==
    \/ RT_StartStroke
    \/ RT_AddStrokePoint
    \/ RT_EndStroke
    \/ RT_Undo
    \/ RT_Redo

SpecRT == InitRT /\ [][NextRT]_vars

(***************************************************************************)
(* SpecHist: the history at its capacity.  On a fresh engine               *)
(* maxHistorySize + Overflow snapshots are pushed with no undo in between  *)
(* (phase "push"): by strokes, and among the last pushes also by           *)
(* clearCanvas and clearLayer.  Then undo() and redo() are called in any   *)
(* order (phase "replay").                                                 *)
(***************************************************************************)
HistTarget == maxHistorySize + Overflow

\* the pushes that may be clears: the last two
ClearWindow == pushCount >= HistTarget - 2 /\ pushCount < HistTarget

InitHist == InitEngine /\ InitScenario("push")

H_StartStroke ==
    /\ phase = "push"
    /\ ~isDrawing
    /\ pushCount < HistTarget
    /\ startStroke(DownSample)
    /\ Unbudgeted

H_EndStroke ==
    /\ isDrawing
    /\ endStroke
    /\ Unbudgeted

H_ClearCanvas ==
    /\ phase = "push"
    /\ ClearWindow
    /\ clearCanvas
    /\ Unbudgeted

H_ClearLayer ==
    /\ phase = "push"
    /\ ClearWindow
    /\ clearLayer(activeLayerId)
    /\ Unbudgeted

H_Undo ==
    /\ pushCount = HistTarget
    /\ undo
    /\ phase' = "replay"
    /\ UNCHANGED <<nStrokes, nDone, preUndo, auxCount, lastPoint, legacy>>
    /\ Emitting

H_Redo ==
    /\ phase = "replay"
    /\ redo
    /\ Unbudgeted

NextHist ==
    \/ H_StartStroke
    \/ H_EndStroke
    \/ H_ClearCanvas
    \/ H_ClearLayer
    \/ H_Undo
    \/ H_Redo

SpecHist == InitHist /\ [][NextHist]_vars

(***************************************************************************)
(* SpecCursor: pushes by strokes, and near the capacity also by            *)
(* clearCanvas, up to and beyond the capacity, with undo() called between  *)
(* two pushes or during a stroke while the history is short or about to be *)
(* full, and redo() whenever wanted.                                       *)
(***************************************************************************)
\* how many pushes beyond the capacity SpecCursor performs
CursorOverflow == 2
\* calls of undo in one behaviour of SpecCursor
MaxCursorUndos == 1

CursorTarget == maxHistorySize + CursorOverflow

\* when SpecCursor calls clearCanvas: from the last push before the capacity on
NearCapacity == pushCount >= maxHistorySize - 1

\* when SpecCursor calls undo: before the third push, and near the capacity
CursorWindow == pushCount <= 2 \/ NearCapacity

U_StartStroke ==
    /\ ~isDrawing
    /\ pushCount < CursorTarget
    /\ startStroke(DownSample)
    /\ Unbudgeted

U_ClearCanvas ==
    /\ NearCapacity
    /\ pushCount < CursorTarget
    /\ clearCanvas
    /\ Unbudgeted

U_Undo ==
    /\ CursorWindow
    /\ auxCount < MaxCursorUndos
    /\ auxCount' = auxCount + 1
    /\ undo
    /\ UNCHANGED scenarioVars
    /\ Emitting

NextCursor ==
    \/ U_StartStroke
    \/ EndCurrentStroke
    \/ U_ClearCanvas
    \/ U_Undo
    \/ Redo

SpecCursor == Init /\ [][NextCursor]_vars

(***************************************************************************)
(* SpecStrokes: startStroke, addStrokePoint and endStroke called in any    *)
(* order, in Idle and in Drawing, with clearCanvas, undo and redo among    *)
(* them, under the bounds of Spec.                                         *)
(***************************************************************************)
NextStrokes ==
    \/ StartStroke
    \/ AddStrokePoint
    \/ EndStroke
    \/ ClearCanvas
    \/ Undo
    \/ Redo

SpecStrokes == Init /\ [][NextStrokes]_vars

(***************************************************************************)
(* SpecLegacy: the operations of the V1.1 engine, called in any order.     *)
(***************************************************************************)
\* strokes started in one behaviour of SpecLegacy
MaxLegacyStrokes == 2
\* the longest history of the V1.1 engine in SpecLegacy
MaxLegacyHistory == 3

\* a call of saveToHistory stays within MaxLegacyHistory
LegacyPushAllowed == legacy.historyIndex + 2 <= MaxLegacyHistory

NextLegacy ==
    \/ /\ legacy.strokeIdCounter < MaxLegacyStrokes
       /\ V1_startStroke(DownSample, LegacySettings)
    \/ /\ legacy.state.currentStroke # Null =>
            Len(legacy.state.currentStroke.points) < MaxPoints
       /\ addPoint(MoveSample)
    \/ /\ legacy.state.currentStroke # Null => LegacyPushAllowed
       /\ V1_endStroke
    \/ V1_undo
    \/ V1_redo
    \/ /\ LegacyPushAllowed
       /\ clear

SpecLegacy == Init /\ [][NextLegacy]_vars

(***************************************************************************)
(* SpecLayers: the layer operations, the clears, strokes of one point and  *)
(* undo/redo, in any order.                                                *)
(***************************************************************************)
\* calls of layer operations in one behaviour of SpecLayers
MaxLayerCalls == 2
\* calls of saveState in one behaviour of SpecLayers
MaxLayerPushes == 2

LayerPushAllowed == pushCount < MaxLayerPushes

\* the ids SpecLayers passes to setLayerOpacity and setLayerVisibility: those that match
\* no layer, the id never generated and the ids of deleted layers
CosmeticIds == {id \in LayerIds : findIndex(layers, id) = 0}

LayerCall ==
    /\ auxCount < MaxLayerCalls
    /\ auxCount' = auxCount + 1
    /\ UNCHANGED scenarioVars
    /\ Emitting

L_CreateLayer == createLayer /\ LayerCall

L_DeleteLayer == \E id \in LayerIds : deleteLayer(id) /\ LayerCall

L_SetActiveLayer == \E id \in LayerIds : setActiveLayer(id) /\ LayerCall

L_SetLayerOpacity == \E id \in CosmeticIds : setLayerOpacity(id, 5) /\ LayerCall

L_SetLayerVisibility == \E id \in CosmeticIds : setLayerVisibility(id, FALSE) /\ LayerCall

L_StartStroke ==
    /\ ~startStrokeRejected => LayerPushAllowed
    /\ startStroke(DownSample)
    /\ Unbudgeted

L_ClearCanvas == LayerPushAllowed /\ clearCanvas /\ Unbudgeted

L_ClearLayer ==
    \E id \in LayerIds :
        /\ findIndex(layers, id) # 0 => LayerPushAllowed
        /\ clearLayer(id)
        /\ Unbudgeted

NextLayers ==
    \/ L_CreateLayer
    \/ L_DeleteLayer
    \/ L_SetActiveLayer
    \/ L_SetLayerOpacity
    \/ L_SetLayerVisibility
    \/ L_StartStroke
    \/ EndStroke
    \/ L_ClearCanvas
    \/ L_ClearLayer
    \/ Undo
    \/ Redo

SpecLayers == Init /\ [][NextLayers]_vars

(***************************************************************************)
(* SpecOrder: createLayer, deleteLayer and setActiveLayer only, called     *)
(* with the ids of existing layers, in any order.                          *)
(***************************************************************************)
\* calls in one behaviour of SpecOrder
MaxOrderCalls == 8

ExistingIds == {layers[i].id : i \in 1 .. Len(layers)}

OrderCall ==
    /\ auxCount < MaxOrderCalls
    /\ auxCount' = auxCount + 1
    /\ UNCHANGED scenarioVars
    /\ Emitting

O_CreateLayer == createLayer /\ OrderCall

O_DeleteLayer == \E id \in ExistingIds : deleteLayer(id) /\ OrderCall

O_SetActiveLayer ==
    \E id \in ExistingIds \ {activeLayerId} : setActiveLayer(id) /\ OrderCall

NextOrder ==
    \/ O_CreateLayer
    \/ O_DeleteLayer
    \/ O_SetActiveLayer

SpecOrder == Init /\ [][NextOrder]_vars

(***************************************************************************)
(* SpecClear: strokes on up to two layers, clears, undo and redo.          *)
(***************************************************************************)
\* calls of saveState in one behaviour of SpecClear
MaxClearPushes == 3
\* calls of createLayer and setActiveLayer in one behaviour of SpecClear
MaxClearLayerCalls == 2

ClearPushAllowed == pushCount < MaxClearPushes

ClearLayerCall ==
    /\ auxCount < MaxClearLayerCalls
    /\ auxCount' = auxCount + 1
    /\ UNCHANGED scenarioVars
    /\ Emitting

K_CreateLayer == createLayer /\ ClearLayerCall

K_SetActiveLayer ==
    \E id \in ExistingIds \ {activeLayerId} : setActiveLayer(id) /\ ClearLayerCall

K_StartStroke ==
    /\ ~isDrawing
    /\ ClearPushAllowed
    /\ startStroke(DownSample)
    /\ Unbudgeted

K_ClearCanvas == ClearPushAllowed /\ clearCanvas /\ Unbudgeted

K_ClearLayer ==
    \E id \in ExistingIds : ClearPushAllowed /\ clearLayer(id) /\ Unbudgeted

NextClear ==
    \/ K_CreateLayer
    \/ K_SetActiveLayer
    \/ K_StartStroke
    \/ EndCurrentStroke
    \/ K_ClearCanvas
    \/ K_ClearLayer
    \/ Undo
    \/ Redo

SpecClear == Init /\ [][NextClear]_vars

(***************************************************************************)
(* SpecFrame: strokes, clears, undo and redo, and among them calls of the  *)
(* operations that neither draw nor clear: the layer operations, the brush *)
(* setters and the canvas setters.                                         *)
(***************************************************************************)
\* calls of saveState in one behaviour of SpecFrame
MaxFramePushes == 2
\* calls of layer operations and setters in one behaviour of SpecFrame
MaxFrameCalls == 1

FramePushAllowed == pushCount < MaxFramePushes

F_StartStroke ==
    /\ ~isDrawing
    /\ FramePushAllowed
    /\ startStroke(DownSample)
    /\ Unbudgeted

F_ClearCanvas == FramePushAllowed /\ clearCanvas /\ Unbudgeted

F_ClearLayer ==
    \E id \in ExistingIds : FramePushAllowed /\ clearLayer(id) /\ Unbudgeted

F_Call ==
    /\ \/ createLayer
       \/ \E id \in LayerIds : deleteLayer(id)
       \/ \E id \in LayerIds : setActiveLayer(id)
       \/ \E id \in LayerIds : setLayerOpacity(id, 5)
       \/ \E id \in LayerIds : setLayerVisibility(id, FALSE)
       \/ \E b \in Brushes \ {activeBrush} : setBrush(b)
       \/ \E c \in Colors \ {activeColor} : setColor(c)
       \/ setBrushSize(200 * Unit)
       \/ setBrushOpacity(Unit \div 2)
       \/ setCanvasSize(800, 600)
       \/ setBackgroundColor("#EEEEEE")
    /\ auxCount < MaxFrameCalls
    /\ auxCount' = auxCount + 1
    /\ UNCHANGED scenarioVars
    /\ Emitting

NextFrame ==
    \/ F_StartStroke
    \/ EndCurrentStroke
    \/ F_ClearCanvas
    \/ F_ClearLayer
    \/ Undo
    \/ Redo
    \/ F_Call

SpecFrame == Init /\ [][NextFrame]_vars

(***************************************************************************)
(* SpecBrush: strokes of several points, the brush setters between and     *)
(* within them, undo and redo.                                             *)
(***************************************************************************)
\* strokes started in one behaviour of SpecBrush
MaxBrushStrokes == 2
\* calls of brush setters in one behaviour of SpecBrush
MaxBrushCalls == 1

B_StartStroke ==
    /\ ~isDrawing
    /\ strokeIdCounter < MaxBrushStrokes
    /\ startStroke(DownSample)
    /\ Unbudgeted

B_AddStrokePoint ==
    /\ isDrawing
    /\ Len(currentStroke.points) < MaxPoints
    /\ addStrokePoint(MoveSample)
    /\ Unbudgeted

B_Setter ==
    /\ \/ \E b \in Brushes \ {activeBrush} : setBrush(b)
       \/ \E c \in Colors \ {activeColor} : setColor(c)
       \/ setBrushSize(200 * Unit)
       \/ setBrushOpacity(Unit \div 2)
    /\ auxCount < MaxBrushCalls
    /\ auxCount' = auxCount + 1
    /\ UNCHANGED scenarioVars
    /\ Emitting

NextBrush ==
    \/ B_StartStroke
    \/ B_AddStrokePoint
    \/ EndCurrentStroke
    \/ B_Setter
    \/ Undo
    \/ Redo

SpecBrush == Init /\ [][NextBrush]_vars

(***************************************************************************)
(* SpecEvents: handlers are subscribed to and unsubscribed from the stroke *)
(* events while strokes are drawn.                                         *)
(***************************************************************************)
\* calls of on in one behaviour of SpecEvents
MaxSubscriptions == 3
\* strokes started in one behaviour of SpecEvents
MaxEventStrokes == 1

\* the events SpecEvents subscribes handlers to
EventNames == {"stroke:started", "stroke:completed"}

E_On ==
    /\ auxCount < MaxSubscriptions
    /\ \E event \in EventNames, callback \in Handlers : on(event, callback)
    /\ auxCount' = auxCount + 1
    /\ UNCHANGED scenarioVars

E_Off ==
    /\ \E event \in DOMAIN listeners :
            \E k \in 1 .. Len(listeners[event]) : off(event, listeners[event][k])
    /\ UNCHANGED <<auxCount, scenarioVars>>

E_Unsubscribe ==
    /\ \E event \in DOMAIN subscribed :
            \E j \in 1 .. Len(subscribed[event]) : unsubscribe(event, j)
    /\ UNCHANGED <<auxCount, scenarioVars>>

E_StartStroke ==
    /\ ~isDrawing
    /\ strokeIdCounter < MaxEventStrokes
    /\ startStroke(DownSample)
    /\ Unbudgeted

E_AddStrokePoint ==
    /\ isDrawing
    /\ Len(currentStroke.points) < MaxPoints
    /\ addStrokePoint(MoveSample)
    /\ Unbudgeted

NextEvents ==
    \/ E_On
    \/ E_Off
    \/ E_Unsubscribe
    \/ E_StartStroke
    \/ E_AddStrokePoint
    \/ EndCurrentStroke

SpecEvents == Init /\ [][NextEvents]_vars

(***************************************************************************)
(* SpecPressure: strokes whose samples differ in pressure only, drawn with *)
(* brushes that follow the pressure in size, in opacity, or in both.       *)
(***************************************************************************)
\* samples passed to startStroke and addStrokePoint in one behaviour of SpecPressure
MaxPressureSamples == 2
\* calls of brush setters in one behaviour of SpecPressure
MaxPressureCalls == 1

P_StartStroke ==
    /\ ~isDrawing
    /\ SamplesTaken < MaxPressureSamples
    /\ \E pressure \in Pressures : startStroke(PressureSample(pressure))
    /\ Unbudgeted

P_AddStrokePoint ==
    /\ isDrawing
    /\ SamplesTaken < MaxPressureSamples
    /\ \E pressure \in Pressures : addStrokePoint(PressureSample(pressure))
    /\ Unbudgeted

P_Setter ==
    /\ \/ \E b \in (Brushes \cup {MarkerBrush}) \ {activeBrush} : setBrush(b)
       \/ setBrushSize(3 * Unit)
       \/ setBrushOpacity(Unit \div 2)
    /\ auxCount < MaxPressureCalls
    /\ auxCount' = auxCount + 1
    /\ UNCHANGED scenarioVars
    /\ Emitting

NextPressure ==
    \/ P_StartStroke
    \/ P_AddStrokePoint
    \/ EndCurrentStroke
    \/ P_Setter

SpecPressure == Init /\ [][NextPressure]_vars

(***************************************************************************)
(* SpecPath: strokes of one or more points, each sample at one of two      *)
(* positions, drawn with brushes of spacing 0, 0.1 and 0.5.                *)
(***************************************************************************)
\* samples passed to startStroke and addStrokePoint in one behaviour of SpecPath
MaxPathSamples == 4
\* calls of setBrush in one behaviour of SpecPath
MaxPathCalls == 1

\* coordinates are multiples of PathGrid, so that the smoothing of MaxPathSamples points
\* is exact
PathGrid == 2 * Pow10(MaxPathSamples)
PathSamples ==
    {[x |-> 0, y |-> 0, pressure |-> 5, timestamp |-> 1],
     [x |-> PathGrid, y |-> 2 * PathGrid, pressure |-> 10, timestamp |-> 2]}

T_StartStroke ==
    /\ ~isDrawing
    /\ SamplesTaken < MaxPathSamples
    /\ \E p \in PathSamples : startStroke(p)
    /\ Unbudgeted

T_AddStrokePoint ==
    /\ isDrawing
    /\ SamplesTaken < MaxPathSamples
    /\ \E p \in PathSamples : addStrokePoint(p)
    /\ Unbudgeted

T_SetBrush ==
    /\ \E b \in (Brushes \cup {MarkerBrush}) \ {activeBrush} : setBrush(b)
    /\ auxCount < MaxPathCalls
    /\ auxCount' = auxCount + 1
    /\ UNCHANGED scenarioVars
    /\ Emitting

NextPath ==
    \/ T_StartStroke
    \/ T_AddStrokePoint
    \/ EndCurrentStroke
    \/ T_SetBrush

SpecPath == Init /\ [][NextPath]_vars

(***************************************************************************)
(* SpecCanvas: the canvas component is mounted on a fresh engine; then     *)
(* gestures arrive at its PanResponder, each a grant, moves, and a release *)
(* or a terminate, and the parent calls clear, undo and redo in between    *)
(* and during them.                                                        *)
(***************************************************************************)
\* calls of saveState in one behaviour of SpecCanvas
MaxCanvasPushes == 2
\* points of one stroke of SpecCanvas
MaxCanvasPoints == 2

CanvasPushAllowed == pushCount < MaxCanvasPushes

\* what a step of the component leaves alone besides lastPoint
Mounted ==
    phase = "mounted" /\ UNCHANGED <<auxCount, phase, nStrokes, nDone, preUndo, legacy>>

C_Mount ==
    /\ phase = "free"
    /\ phase' = "mounted"
    /\ \E callback \in {h \in Handlers : h.kind \in {"returns", "throws"}} :
            useEffect(800, 600, callback)
    /\ UNCHANGED <<auxCount, nStrokes, nDone, preUndo, lastPoint, legacy>>

\* Canvas.tsx:221; a gesture starts when no gesture is in progress
onPanResponderGrant ==
    /\ Mounted
    /\ lastPoint = Null
    /\ CanvasPushAllowed
    /\ \E event \in TouchEvents : handleTouchStart(event)

\* Canvas.tsx:222
onPanResponderMove ==
    /\ Mounted
    /\ lastPoint # Null
    /\ isDrawing => Len(currentStroke.points) < MaxCanvasPoints
    /\ \E event \in TouchEvents : handleTouchMove(event)

\* Canvas.tsx:223
onPanResponderRelease == Mounted /\ lastPoint # Null /\ handleTouchEnd

\* Canvas.tsx:224
onPanResponderTerminate == Mounted /\ lastPoint # Null /\ handleTouchEnd

\* Canvas.tsx:108-126: the methods of the ref
C_Clear == Mounted /\ CanvasPushAllowed /\ clearCanvas /\ UNCHANGED lastPoint /\ Emitting

C_Undo == Mounted /\ undo /\ UNCHANGED lastPoint /\ Emitting

C_Redo == Mounted /\ redo /\ UNCHANGED lastPoint /\ Emitting

NextCanvas ==
    \/ C_Mount
    \/ onPanResponderGrant
    \/ onPanResponderMove
    \/ onPanResponderRelease
    \/ onPanResponderTerminate
    \/ C_Clear
    \/ C_Undo
    \/ C_Redo

SpecCanvas == Init /\ [][NextCanvas]_vars

(***************************************************************************)
(* Claims.                                                                 *)
(***************************************************************************)
\* the canvas state of a snapshot or of the engine without the derived Skia objects
CanvasData(lyrs, activeId) == [layers |-> jsonLayers(lyrs), activeLayerId |-> activeId]

StrokeIds(lyrs) == {AllStrokes(lyrs)[i].id : i \in 1 .. Len(AllStrokes(lyrs))}

\* C1: after N completed strokes on a fresh engine, N calls of undo() and then N calls
\* of redo(), the layers (stroke ids and points) and the active layer are what they
\* were before the first undo().
C1_RoundTrip ==
    phase = "done" =>
        CanvasData(layers, activeLayerId) = CanvasData(preUndo.layers, preUndo.activeLayerId)

\* C2: undo() at the first entry or on an empty history returns false, changes nothing
\* and emits nothing; otherwise it returns true, moves the cursor back by one and leaves
\* layers and activeLayerId equal to the snapshot at the new cursor.  redo() likewise, at
\* the last entry and forward.
C2_UndoRedo ==
    [][/\ (last'.op = "undo" /\ (historyIndex <= 0 \/ Len(history) = 0)) =>
            /\ ~last'.ok
            /\ last'.emitted = << >>
            /\ UNCHANGED engineVars
       /\ (last'.op = "undo" /\ ~(historyIndex <= 0 \/ Len(history) = 0)) =>
            /\ last'.ok
            /\ historyIndex' = historyIndex - 1
            /\ history' = history
            /\ CanvasData(layers', activeLayerId') =
                    CanvasData(history[historyIndex' + 1].layers,
                               history[historyIndex' + 1].activeLayerId)
       /\ (last'.op = "redo" /\ historyIndex >= Len(history) - 1) =>
            /\ ~last'.ok
            /\ last'.emitted = << >>
            /\ UNCHANGED engineVars
       /\ (last'.op = "redo" /\ historyIndex < Len(history) - 1) =>
            /\ last'.ok
            /\ historyIndex' = historyIndex + 1
            /\ history' = history
            /\ CanvasData(layers', activeLayerId') =
                    CanvasData(history[historyIndex' + 1].layers,
                               history[historyIndex' + 1].activeLayerId)
      ]_vars

\* an undo() that brought back a snapshot with one layer, active, from a history whose
\* next entry has two layers and the other one active
C2_Witness ==
    /\ last.op = "undo"
    /\ last.ok
    /\ activeLayerId = 1
    /\ Len(layers) = 1
    /\ historyIndex < Len(history) - 1
    /\ history[historyIndex + 2].activeLayerId = 2

\* C3: the history never holds more than 50 entries; after 60 pushes on a fresh engine
\* with no undo in between it holds exactly 50, the 50 pushed last, in push order; and
\* whatever undo()/redo() restore afterwards is one of these 50, never one of the 10
\* oldest snapshots (60 is maxHistorySize + Overflow, 10 is Overflow).
C3_HistoryBound ==
    /\ Len(history) <= maxHistorySize
    /\ pushCount = HistTarget =>
        /\ Len(history) = maxHistorySize
        /\ \A i \in 1 .. Len(history) : history[i].seq = Overflow + i
    /\ (phase = "replay" /\ last.op \in {"undo", "redo"} /\ last.ok) =>
        /\ historyIndex \in 0 .. (Len(history) - 1)
        /\ history[historyIndex + 1].seq > Overflow
        /\ CanvasData(layers, activeLayerId) =
                CanvasData(history[historyIndex + 1].layers,
                           history[historyIndex + 1].activeLayerId)

\* all pushes done and undo() called down to the oldest entry left, which is push 11
C3_Witness ==
    /\ pushCount = HistTarget
    /\ phase = "replay"
    /\ last.op = "undo"
    /\ last.ok
    /\ historyIndex = 0
    /\ history[1].seq = Overflow + 1

\* the calls that push a history entry when they are accepted
PushOps == {"startStroke", "clearCanvas", "clearLayer"}

\* C4: a push (accepted startStroke, clearCanvas, successful clearLayer) discards the
\* entries after the cursor and leaves the cursor at the last entry; a redo() called
\* right after a push returns false and changes nothing.
C4_LinearUndo ==
    [][/\ (last'.op \in PushOps /\ last'.ok) =>
            LET pushed == Append(SubSeq(history, 1, historyIndex + 1),
                                 history'[Len(history')])
            IN  /\ history' = IF Len(pushed) > maxHistorySize THEN Tail(pushed) ELSE pushed
                /\ historyIndex' = Len(history') - 1
       /\ (last.op \in PushOps /\ last.ok /\ last'.op = "redo") =>
            /\ ~last'.ok
            /\ UNCHANGED engineVars
      ]_vars

\* a push made with the cursor below the last entry: an entry was discarded
C4_Witness ==
    /\ last.op \in PushOps
    /\ last.ok
    /\ pushCount > Len(history)
    /\ historyIndex = Len(history) - 1

\* C5: an accepted startStroke pushes exactly one snapshot; addStrokePoint and endStroke
\* push none and leave the history and the cursor as they are.
C5_OnePushPerStroke ==
    [][/\ (last'.op = "startStroke" /\ last'.ok) =>
            /\ pushCount' = pushCount + 1
            /\ Len(history') = Min(historyIndex + 2, maxHistorySize)
            /\ history'[Len(history')].seq = pushCount'
       /\ last'.op \in {"addStrokePoint", "endStroke"} =>
            UNCHANGED <<history, historyIndex, pushCount>>
      ]_vars

\* a gesture of startStroke, one addStrokePoint and endStroke is complete and the
\* history holds the one entry startStroke pushed
C5_Witness ==
    /\ last.op = "endStroke"
    /\ last.ok
    /\ pushCount = 1
    /\ Len(history) = 1
    /\ \E i \in 1 .. Len(AllStrokes(layers)) : Len(AllStrokes(layers)[i].points) = 2

\* C6: the entry a push adds does not contain the stroke that is the engine's current
\* stroke at that moment, also when clearCanvas or clearLayer push while Drawing; and
\* entries are never modified afterwards, so no entry ever contains it.
C6_NoStrokeInProgressInHistory ==
    [][/\ (last'.op \in PushOps /\ last'.ok /\ currentStroke' # Null) =>
            currentStroke'.id \notin StrokeIds(history'[Len(history')].layers)
       /\ \A i \in 1 .. Len(history') :
            (i < Len(history') \/ ~(last'.op \in PushOps /\ last'.ok)) =>
                \E j \in 1 .. Len(history) : history[j] = history'[i]
      ]_vars

\* clearCanvas pushed a snapshot that holds a completed stroke while another stroke was
\* in progress
C6_Witness ==
    /\ last.op = "clearCanvas"
    /\ isDrawing
    /\ StrokeIds(history[Len(history)].layers) # {}

\* C7: a successful undo() or redo() called while Drawing leaves the engine Idle.
C7_UndoRedoCancelStroke ==
    [][(last'.op \in {"undo", "redo"} /\ last'.ok /\ isDrawing) =>
            (~isDrawing' /\ currentStroke' = Null)
      ]_vars

\* C8: while Drawing, every call but endStroke leaves the engine Drawing with the same
\* current stroke id.
C8_OnlyEndStrokeLeavesDrawing ==
    [][(isDrawing /\ last'.op # "endStroke") =>
            /\ isDrawing'
            /\ currentStroke' # Null
            /\ currentStroke'.id = currentStroke.id
      ]_vars

\* undo() succeeded while Drawing and the engine is still Drawing
C8_Witness ==
    /\ last.op = "undo"
    /\ last.ok
    /\ isDrawing
    /\ currentStroke # Null

\* C9: startStroke called while Drawing, or with the active layer locked, returns at
\* once: the engine state (current stroke, layers, history, cursor, stroke id counter
\* and the rest) is unchanged and nothing is emitted.
C9_StartStrokeRejected ==
    [][(/\ last'.op = "startStroke"
        /\ \/ isDrawing
           \/ \E i \in 1 .. Len(layers) :
                layers[i].id = activeLayerId /\ layers[i].locked) =>
            /\ ~last'.ok
            /\ last'.emitted = << >>
            /\ UNCHANGED engineVars
      ]_vars

\* startStroke was refused while Idle because the active layer is locked
C9_Witness ==
    /\ last.op = "startStroke"
    /\ ~last.ok
    /\ ~isDrawing
    /\ \E i \in 1 .. Len(layers) : layers[i].id = activeLayerId /\ layers[i].locked

\* C10: addStrokePoint and endStroke called while Idle change nothing (layers, stroke
\* count, history, cursor, Idle) and emit nothing.
C10_IdleNoOps ==
    [][(last'.op \in {"addStrokePoint", "endStroke"} /\ ~isDrawing) =>
            /\ ~last'.ok
            /\ last'.emitted = << >>
            /\ UNCHANGED engineVars
            /\ ~isDrawing'
      ]_vars

\* endStroke() on a fresh engine: no stroke anywhere, nothing pushed
C10_Witness ==
    /\ last.op = "endStroke"
    /\ ~last.ok
    /\ pushCount = 0
    /\ auxCount = 0
    /\ Len(AllStrokes(layers)) = 0

\* C11: at least one layer exists in every state; deleteLayer called when exactly one
\* layer is left returns false and leaves the layers and the active layer unchanged.
C11_AtLeastOneLayer ==
    [][/\ Len(layers) >= 1
       /\ Len(layers') >= 1
       /\ (last'.op = "deleteLayer" /\ Len(layers) = 1) =>
            /\ ~last'.ok
            /\ layers' = layers
            /\ activeLayerId' = activeLayerId
      ]_vars

\* deleteLayer was refused for the one layer left after another layer was deleted and
\* an undo() restored a snapshot
C11_Witness ==
    /\ last.op = "deleteLayer"
    /\ ~last.ok
    /\ Len(layers) = 1
    /\ layerIdCounter >= 2
    /\ historyIndex >= 0
    /\ historyIndex < Len(history) - 1

\* C12: when deleteLayer removes the active layer, the new active layer is the first of
\* the remaining layers by `order`: the first element of getLayers() after the deletion.
C12_ActiveAfterDelete ==
    [][(/\ last'.op = "deleteLayer"
        /\ last'.ok
        /\ \A i \in 1 .. Len(layers') : layers'[i].id # activeLayerId) =>
            activeLayerId' = getLayers(layers')[1].id
      ]_vars

\* C13: a clearCanvas() called right after a clearCanvas() leaves the layers state as
\* the first call left it (same layers, every stroke list empty, same active layer),
\* and every call of clearCanvas() pushes exactly one history entry, the snapshot of the
\* layers it found.
C13_IdempotentClear ==
    [][last'.op = "clearCanvas" =>
            /\ \A i \in 1 .. Len(layers') : layers'[i].strokes = << >>
            /\ Len(layers') = Len(layers)
            /\ activeLayerId' = activeLayerId
            /\ pushCount' = pushCount + 1
            /\ Len(history') = Min(historyIndex + 2, maxHistorySize)
            /\ historyIndex' = Len(history') - 1
            /\ history'[Len(history')].seq = pushCount'
            /\ CanvasData(history'[Len(history')].layers,
                          history'[Len(history')].activeLayerId) =
                    CanvasData(layers, activeLayerId)
            /\ last.op = "clearCanvas" =>
                    /\ layers' = layers
                    /\ activeLayerId' = activeLayerId
      ]_vars

\* clearCanvas() was called twice in a row on two layers, of which the one that is not
\* active held a stroke: each call pushed an entry, the first entry holds the stroke
C13_Witness ==
    /\ last.op = "clearCanvas"
    /\ Len(layers) = 2
    /\ historyIndex >= 2
    /\ history[historyIndex + 1].seq = history[historyIndex].seq + 1
    /\ AllStrokes(history[historyIndex + 1].layers) = << >>
    /\ \E i \in 1 .. Len(history[historyIndex].layers) :
            /\ history[historyIndex].layers[i].id # history[historyIndex].activeLayerId
            /\ history[historyIndex].layers[i].strokes # << >>

\* C14: deleteLayer, setActiveLayer, setLayerOpacity, setLayerVisibility and clearLayer
\* called with an id that matches no layer return false, raise nothing, emit nothing and
\* leave layers, activeLayerId, history and cursor unchanged; clearLayer pushes nothing.
C14_UnknownIdsIgnored ==
    [][\A id \in LayerIds :
        (/\ \A i \in 1 .. Len(layers) : layers[i].id # id
         /\ \/ deleteLayer(id)
            \/ setActiveLayer(id)
            \/ setLayerOpacity(id, 5)
            \/ setLayerVisibility(id, FALSE)
            \/ clearLayer(id)) =>
            /\ ~last'.ok
            /\ last'.emitted = << >>
            /\ ~delivered'.raised
            /\ UNCHANGED <<layers, activeLayerId, history, historyIndex, pushCount>>
      ]_vars

\* clearLayer was refused on a canvas that holds a stroke, with a history entry and the
\* id of a deleted layer to pass
C14_Witness ==
    /\ last.op = "clearLayer"
    /\ ~last.ok
    /\ AllStrokes(layers) # << >>
    /\ Len(history) >= 1
    /\ layerIdCounter > Len(layers)

\* the operations that neither draw nor clear
FrameOps ==
    {"createLayer", "deleteLayer", "setActiveLayer", "setLayerOpacity",
     "setLayerVisibility", "setBrush", "setColor", "setBrushSize", "setBrushOpacity",
     "setCanvasSize", "setBackgroundColor"}

\* C15: createLayer, deleteLayer, setActiveLayer, setLayerOpacity, setLayerVisibility,
\* setBrush, setColor, setBrushSize, setBrushOpacity, setCanvasSize and
\* setBackgroundColor leave the history and the cursor unchanged; the history changes
\* only by an accepted startStroke, a clearCanvas or a successful clearLayer.
C15_OnlyPushOpsPush ==
    [][/\ last'.op \in FrameOps =>
            /\ history' = history
            /\ historyIndex' = historyIndex
            /\ pushCount' = pushCount
       /\ (history' # history \/ pushCount' # pushCount) =>
            (last'.op \in PushOps /\ last'.ok)
      ]_vars

\* an accepted call of one of these operations, made with the cursor below the last of
\* two entries
C15_Witness ==
    /\ last.op \in FrameOps
    /\ last.ok
    /\ Len(history) = 2
    /\ historyIndex = 0

\* the ids of the layers
LayerIdSet(lyrs) == {lyrs[i].id : i \in 1 .. Len(lyrs)}

\* C16: the set of layer ids changes only by createLayer, which adds one id, and by a
\* successful deleteLayer, which removes one; undo(), redo(), clearCanvas, clearLayer
\* and the stroke operations never add or remove a layer.
C16_LayersExplicit ==
    [][/\ last'.op = "createLayer" =>
            /\ LayerIdSet(layers) \subseteq LayerIdSet(layers')
            /\ Cardinality(LayerIdSet(layers') \ LayerIdSet(layers)) = 1
       /\ (last'.op = "deleteLayer" /\ last'.ok) =>
            /\ LayerIdSet(layers') \subseteq LayerIdSet(layers)
            /\ Cardinality(LayerIdSet(layers) \ LayerIdSet(layers')) = 1
       /\ ~(last'.op = "createLayer" \/ (last'.op = "deleteLayer" /\ last'.ok)) =>
            LayerIdSet(layers') = LayerIdSet(layers)
      ]_vars

\* what a stroke is, without the derived Skia path and paint and the layer reference
StrokeData(s) ==
    [id |-> s.id, points |-> s.points, brush |-> s.brush, color |-> s.color,
     size |-> s.size, opacity |-> s.opacity, blendMode |-> s.blendMode]

\* the strokes appended to a layer: those of the live layers and of every history entry
Appended(lyrs, hist) ==
    {StrokeData(AllStrokes(lyrs)[i]) : i \in 1 .. Len(AllStrokes(lyrs))}
        \cup UNION {{StrokeData(AllStrokes(hist[k].layers)[i]) :
                        i \in 1 .. Len(AllStrokes(hist[k].layers))} : k \in 1 .. Len(hist)}

\* C17: once endStroke has appended a stroke to a layer, no operation changes its
\* points, brush snapshot, color, size, opacity or blendMode, neither in the live layers
\* nor in a history entry: wherever the stroke still is after a call, it is what it was.
C17_AppendedStrokeImmutable ==
    [][\A s \in Appended(layers, history) \cup Appended(layers', history') :
        \A t \in Appended(layers', history') : (s.id = t.id) => (s = t)
      ]_vars

\* two completed strokes drawn with different brushes, the first of them also in a
\* history entry
C17_Witness ==
    /\ last.op = "endStroke"
    /\ last.ok
    /\ Len(AllStrokes(layers)) = 2
    /\ AllStrokes(layers)[1].brush # AllStrokes(layers)[2].brush
    /\ Len(AllStrokes(layers)[2].points) = 2
    /\ \E k \in 1 .. Len(history) : AllStrokes(history[k].layers) # << >>

\* C18: no stroke id occurs more than once across the stroke lists of all layers, and
\* every endStroke accepted in Drawing raises the total number of strokes by one.
C18_StrokeOwnedOnce ==
    [][/\ Cardinality(StrokeIds(layers')) = Len(AllStrokes(layers'))
       /\ (last'.op = "endStroke" /\ isDrawing /\ currentStroke # Null) =>
            /\ last'.ok
            /\ Len(AllStrokes(layers')) = Len(AllStrokes(layers)) + 1
            /\ currentStroke.id \in StrokeIds(layers')
      ]_vars

\* endStroke completed the second stroke; the two strokes are in two layers
C18_Witness ==
    /\ last.op = "endStroke"
    /\ last.ok
    /\ Len(layers) = 2
    /\ layers[1].strokes # << >>
    /\ layers[2].strokes # << >>

\* the listeners with every handler that throws replaced by one that returns
Quiet(ls) ==
    [e \in DOMAIN ls |->
        [k \in 1 .. Len(ls[e]) |->
            IF ls[e][k].kind = "throws" THEN [ls[e][k] EXCEPT !.kind = "returns"]
            ELSE ls[e][k]]]

HandlerIds(calls) == [k \in 1 .. Len(calls) |-> calls[k].handler]

\* C19: what a handler throws during a dispatch does not reach the caller of the
\* operation; the handlers invoked are those that are invoked when no handler throws,
\* in the same order; and the operation leaves the engine state it leaves when no
\* handler throws: after an endStroke accepted in Drawing the engine is Idle and the
\* stroke is in a layer.
C19_HandlerExceptionsIsolated ==
    [][last'.emitted # << >> =>
            /\ ~delivered'.raised
            /\ HandlerIds(delivered'.calls) =
                    HandlerIds(emitAll(Quiet(listeners), last'.emitted, 1).calls)
            /\ last'.op = "endStroke" =>
                    /\ ~isDrawing'
                    /\ currentStroke' = Null
                    /\ Len(AllStrokes(layers')) = Len(AllStrokes(layers)) + 1
      ]_vars

\* endStroke dispatched 'stroke:completed' to a handler that threw and then to another
\* handler, and left the engine Idle
C19_Witness ==
    /\ last.op = "endStroke"
    /\ last.ok
    /\ ~isDrawing
    /\ Len(delivered.calls) >= 2
    /\ delivered.calls[1].threw
    /\ ~delivered.calls[2].threw

\* C20: when the handlers of a notification run, the engine state is the state the
\* operation leaves when it returns; when the handlers of 'stroke:completed' run, the
\* engine is Idle (isDrawing false, no current stroke) and the stroke is in its layer.
C20_MutationBeforeNotification ==
    \A k \in 1 .. Len(delivered.calls) :
        LET event == delivered.calls[k].event
        IN  /\ event.seen = Observed
            /\ event.name = "stroke:completed" =>
                    /\ ~event.seen.isDrawing
                    /\ event.seen.currentStroke = Null
                    /\ event.arg \in StrokeIds(event.seen.layers)

\* the handlers the live subscriptions to the events name, in subscription order
RECURSIVE InSubscriptionOrder(_, _)
InSubscriptionOrder(events, i) ==
    IF i > Len(events) THEN << >>
    ELSE (IF events[i].name \in DOMAIN subscribed
          THEN [k \in 1 .. Len(subscribed[events[i].name]) |->
                    subscribed[events[i].name][k].id]
          ELSE << >>) \o InSubscriptionOrder(events, i + 1)

\* C21: on every emission, the handlers subscribed to the event are invoked in the
\* order of their subscriptions, whatever calls of on() and of unsubscribe functions
\* were made between the emissions (no handler unsubscribes during the emission).
C21_SubscriptionOrder ==
    [][(/\ last'.emitted # << >>
        /\ \A e \in DOMAIN listeners : \A k \in 1 .. Len(listeners[e]) :
                listeners[e][k].kind # "unsubscribes") =>
            HandlerIds(delivered'.calls) = InSubscriptionOrder(last'.emitted, 1)
      ]_vars

\* the pressure of the sample the stroke took last
LastPressure(stroke) == stroke.points[Len(stroke.points)].pressure

C23_PressureClamped ==
    [][(last'.op \in {"startStroke", "addStrokePoint"} /\ last'.ok) =>
            /\ activeBrush.pressureSize =>
                    /\ 10 * currentStroke'.size >= activeBrush.size
                    /\ currentStroke'.size <= activeBrush.size
            /\ activeBrush.pressureOpacity =>
                    /\ 10 * currentStroke'.opacity >= activeBrush.opacity
                    /\ currentStroke'.opacity <= activeBrush.opacity
      ]_vars

\* the circle of the given diameter around the point
Circle(point, diameter) == << <<"addCircle", point.x, point.y, diameter \div 2>> >>

\* C24: the path of a stroke of exactly one point, be it the current stroke or a stroke
\* of a layer, is a circle around that point whose radius is half the stroke's size,
\* the size computed from the pressure.
C24_SinglePointCircle ==
    /\ (currentStroke # Null /\ Len(currentStroke.points) = 1) =>
            currentStroke.path = Circle(currentStroke.points[1], currentStroke.size)
    /\ \A i \in 1 .. Len(AllStrokes(layers)) :
            LET stroke == AllStrokes(layers)[i]
            IN  Len(stroke.points) = 1 => stroke.path = Circle(stroke.points[1], stroke.size)

\* C25: the paths and paints undo() and redo() rebuild for the strokes of the snapshot
\* they restore do not depend on the brush that is active in the engine: an engine
\* whose active brush is any other brush rebuilds the same layers from that snapshot.
C25_DerivedGeometryPure ==
    [][(last'.op \in {"undo", "redo"} /\ last'.ok) =>
            \A b \in Brushes \cup {MarkerBrush} :
                restoreState(entryAt(history', historyIndex'), b).layers = layers'
      ]_vars

\* the path of n >= 2 points: a move to the first, a curve for every point between the
\* first and the last, a segment to the last
PathShape(points) ==
    [k \in 1 .. Len(points) |->
        IF k = 1 THEN <<"moveTo", points[1].x, points[1].y>>
        ELSE IF k = Len(points) THEN <<"lineTo", points[k].x, points[k].y>>
        ELSE <<"quadTo", points[k].x, points[k].y,
               (points[k].x + points[k + 1].x) \div 2,
               (points[k].y + points[k + 1].y) \div 2>>]

\* C26: the path of no point is empty; the path of n >= 2 points is a move to the first
\* point, then for every point between the first and the last, in order, one quadratic
\* curve with that point as control point and the midpoint of it and the next point as
\* endpoint, then one segment to the last point: n - 2 curves, for two points none.
C26_PathShape ==
    /\ createPath(<< >>, activeBrush) = << >>
    /\ (currentStroke # Null /\ Len(currentStroke.points) >= 2) =>
            /\ currentStroke.path = PathShape(currentStroke.points)
            /\ Cardinality({k \in 1 .. Len(currentStroke.path) :
                                currentStroke.path[k][1] = "quadTo"})
                    = Len(currentStroke.points) - 2
    /\ \A i \in 1 .. Len(AllStrokes(layers)) :
            LET stroke == AllStrokes(layers)[i]
            IN  Len(stroke.points) >= 2 => stroke.path = PathShape(stroke.points)

\* endStroke completed a stroke of four points that are not all the same: its path has
\* two curves
C26_Witness ==
    /\ last.op = "endStroke"
    /\ last.ok
    /\ \E i \in 1 .. Len(AllStrokes(layers)) :
            LET stroke == AllStrokes(layers)[i]
            IN  /\ Len(stroke.points) = 4
                /\ stroke.points[2] # stroke.points[3]
                /\ stroke.path[2][1] = "quadTo"
                /\ stroke.path[3][1] = "quadTo"
                /\ stroke.path[4][1] = "lineTo"

Abs(n) == IF n < 0 THEN -n ELSE n

C28_NeverStuckDrawing ==
    [][/\ lastPoint' = Null => (~isDrawing' /\ currentStroke' = Null)
       /\ (lastPoint # Null /\ lastPoint' = Null) => last'.op = "endStroke"
       /\ (lastPoint = Null /\ lastPoint' # Null) =>
            /\ last'.op = "startStroke"
            /\ last'.ok
            /\ isDrawing'
      ]_vars

\* the second gesture was granted and its stroke accepted, after a first gesture with a
\* move that completed a stroke of two points, with handlers that throw
C28_Witness ==
    /\ phase = "mounted"
    /\ last.op = "startStroke"
    /\ last.ok
    /\ strokeIdCounter = 2
    /\ lastPoint # Null
    /\ Len(delivered.calls) = 1
    /\ delivered.calls[1].threw
    /\ \E k \in 1 .. Len(history) :
            \E i \in 1 .. Len(AllStrokes(history[k].layers)) :
                Len(AllStrokes(history[k].layers)[i].points) = 2

\* the strokes of every layer, without the derived Skia objects
StrokesByLayer(lyrs) ==
    [i \in 1 .. Len(lyrs) |->
        [id |-> lyrs[i].id,
         strokes |-> [j \in 1 .. Len(lyrs[i].strokes) |-> StrokeData(lyrs[i].strokes[j])]]]

\* C29: an undo() called right after a clearCanvas() that found at least one stroke
\* returns true and leaves every layer with the strokes it held before the clearCanvas():
\* the strokes of the snapshot the clearCanvas() pushed.
C29_UndoRestoresCleared ==
    [][(/\ last.op = "clearCanvas"
        /\ last'.op = "undo"
        /\ AllStrokes(entryAt(history, historyIndex).layers) # << >>) =>
            /\ last'.ok
            /\ StrokesByLayer(layers') =
                    StrokesByLayer(entryAt(history, historyIndex).layers)
      ]_vars

\* C30: every stroke in the stroke list of a layer has that layer's id as its layerId.
C30_LayerIdNamesOwner ==
    \A i \in 1 .. Len(layers) :
        \A j \in 1 .. Len(layers[i].strokes) : layers[i].strokes[j].layerId = layers[i].id

\* C31: in every state exactly one layer has the id activeLayerId, so getActiveLayer()
\* is never null, and an endStroke() called while a stroke is in progress adds that
\* stroke to the active layer: the stroke is never dropped.
C31_ActiveLayerExists ==
    [][/\ Cardinality({i \in 1 .. Len(layers) : layers[i].id = activeLayerId}) = 1
       /\ Cardinality({i \in 1 .. Len(layers') : layers'[i].id = activeLayerId'}) = 1
       /\ getActiveLayer(layers', activeLayerId') # Null
       /\ (last'.op = "endStroke" /\ isDrawing) =>
            /\ Len(AllStrokes(layers')) = Len(AllStrokes(layers)) + 1
            /\ currentStroke.id \in StrokeIds(<<getActiveLayer(layers', activeLayerId')>>)
      ]_vars

\* endStroke() added a stroke to a layer that became active when deleteLayer removed
\* the active default layer
C31_Witness ==
    /\ last.op = "endStroke"
    /\ last.ok
    /\ activeLayerId # 1
    /\ Len(layers) = 1
    /\ Len(layers[1].strokes) >= 1

\* C32: -1 <= historyIndex <= history.length - 1 in every state, historyIndex is -1
\* only while the history is empty, and right after every push, also one that drops the
\* entries after the cursor and one that evicts the oldest entry at capacity 50,
\* historyIndex = history.length - 1.
C32_CursorInRange ==
    [][/\ historyIndex \in -1 .. (Len(history) - 1)
       /\ historyIndex' \in -1 .. (Len(history') - 1)
       /\ historyIndex = -1 => Len(history) = 0
       /\ historyIndex' = -1 => Len(history') = 0
       /\ pushCount' # pushCount => historyIndex' = Len(history') - 1
      ]_vars

\* a push at capacity evicted the oldest entry, in a history from which an earlier push
\* had dropped the entry an undo() had stepped back from
C32_Witness ==
    /\ Len(history) = maxHistorySize
    /\ history[1].seq > 1
    /\ history[maxHistorySize].seq = pushCount
    /\ last.op \in {"startStroke", "clearCanvas", "clearLayer"}
    /\ \E i \in 1 .. (maxHistorySize - 1) : history[i + 1].seq > history[i].seq + 1

C34_CosmeticOutsideUndo ==
    [][last'.op \in {"undo", "redo"} =>
            \A i \in 1 .. Len(layers), j \in 1 .. Len(layers') :
                layers[i].id = layers'[j].id =>
                    /\ layers'[j].opacity = layers[i].opacity
                    /\ layers'[j].visible = layers[i].visible
      ]_vars

\* C35: what an accepted addStrokePoint stores is computed from the brush snapshot of
\* the stroke: the smoothed point, the size and the opacity are those the brush copied
\* at startStroke gives, whatever setBrush, setBrushSize or setBrushOpacity did since,
\* so the completed stroke is the one the same gesture yields without these calls.
C35_StrokeUsesOwnBrush ==
    [][(last'.op = "addStrokePoint" /\ last'.ok) =>
            LET smoothedPoint == smoothPoint(MoveSample, currentStroke.points,
                                             currentStroke.brush)
            IN  /\ currentStroke'.points = Append(currentStroke.points, smoothedPoint)
                /\ currentStroke'.size =
                        calculateBrushSize(smoothedPoint.pressure, currentStroke.brush)
                /\ currentStroke'.opacity =
                        calculateBrushOpacity(smoothedPoint.pressure, currentStroke.brush)
      ]_vars

\* the strokes for which a call emitted the notification `name`, one element per event
Notified(call, name) ==
    SelectSeq(call.emitted, LAMBDA e : e.name = name)

\* C36: the notifications of a stroke are ordered: 'stroke:started' is emitted once per
\* stroke, on the step from Idle to Drawing and with a fresh id; 'stroke:updated' is
\* emitted once by every accepted addStrokePoint and by nothing else, for the stroke in
\* progress; 'stroke:completed' is emitted on the step from Drawing to Idle for the
\* stroke in progress; and while Drawing the stroke in progress stays the same, so no
\* other stroke is started between the start and the completion of a stroke.
C36_StrokeEventsOrdered ==
    [][LET started == Notified(last', "stroke:started")
           updated == Notified(last', "stroke:updated")
           completed == Notified(last', "stroke:completed")
       IN  /\ Len(started) <= 1 /\ Len(updated) <= 1 /\ Len(completed) <= 1
           /\ Len(started) = 1 <=> (~isDrawing /\ isDrawing')
           /\ Len(started) = 1 =>
                /\ started[1].arg = currentStroke'.id
                /\ currentStroke'.id > strokeIdCounter
                /\ currentStroke'.id = strokeIdCounter'
           /\ Len(updated) = 1 <=> (last'.op = "addStrokePoint" /\ isDrawing)
           /\ Len(updated) = 1 =>
                /\ updated[1].arg = currentStroke.id
                /\ Len(currentStroke'.points) = Len(currentStroke.points) + 1
           /\ Len(completed) = 1 <=> (isDrawing /\ ~isDrawing')
           /\ Len(completed) = 1 =>
                /\ completed[1].arg = currentStroke.id
                /\ last'.op = "endStroke"
           /\ (isDrawing /\ isDrawing') => currentStroke'.id = currentStroke.id
           /\ strokeIdCounter' >= strokeIdCounter
      ]_vars

\* the second stroke was completed with two points, after its 'stroke:started' and one
\* 'stroke:updated'
C36_Witness ==
    /\ last.op = "endStroke"
    /\ Len(Notified(last, "stroke:completed")) = 1
    /\ last.emitted[1].arg >= 2
    /\ \E i \in 1 .. Len(AllStrokes(layers)) :
            /\ AllStrokes(layers)[i].id = last.emitted[1].arg
            /\ Len(AllStrokes(layers)[i].points) >= 2

\* C37: a handler that calls its own unsubscribe function while it is invoked takes no
\* invocation from the other handlers: a call that emits an event invokes every handler
\* of another kind once per subscription it has to the event when the emission begins.
C37_UnsubscribeDuringDispatch ==
    [][(/\ Len(last'.emitted) = 1
        /\ last'.emitted[1].name \in DOMAIN listeners) =>
            \A h \in Handlers :
                h.kind # "unsubscribes" =>
                    Cardinality({k \in 1 .. Len(delivered'.calls) :
                                    delivered'.calls[k].handler = h.id}) =
                    Cardinality({k \in 1 .. Len(listeners[last'.emitted[1].name]) :
                                    listeners[last'.emitted[1].name][k] = h})
      ]_vars

\* C38: after a successful undo() or redo() the V1.1 engine has no current stroke
\* (getCurrentStroke() is null, isDrawing is false), so the addPoint that follows is
\* ignored and the endStroke that follows returns null and adds no stroke.
C38_LegacyUndoLeavesNoStroke ==
    [][(last.op \in {"undo", "redo"} /\ last.ok) =>
            /\ legacy.state.currentStroke = Null
            /\ ~legacy.state.isDrawing
            /\ last'.op = "addPoint" => (~last'.ok /\ legacy' = legacy)
            /\ last'.op = "endStroke" =>
                    (~last'.ok /\ legacy'.state.strokes = legacy.state.strokes)
      ]_vars
====
